---- MODULE Spec2Model ----
(***************************************************************************)
(* Model of the stock/purchase core of RedisLockInventory.                 *)
(*                                                                         *)
(*   - InventoryService   (app/services/inventory_service.py): one Redis   *)
(*     endpoint, lease lock lock:stock:{id} + Lua conditional decrement,   *)
(*     bounded retry.                                                      *)
(*   - RedlockManualService (app/services/redlock_manual_service.py): the  *)
(*     same lock/decrement run on every endpoint of redis_nodes with a     *)
(*     quorum check, sync (in list order) and async (any order).           *)
(*   - PurchaseService    (app/services/purchase_service.py): the saga     *)
(*     around them: product lookup, decrement, Purchase row + Product.stock*)
(*     mirror, commit, failure handling.                                   *)
(*                                                                         *)
(* One product is modelled.  A worker serves one purchase request at a     *)
(* time; requests are numbered in the order they begin, and the number of  *)
(* a request stands for the uuid4 lease token it stores.  A deployment     *)
(* serves one purchase method (style).  Endpoint 0 is                      *)
(* the single Redis of settings.redis_host; endpoints 1..N are             *)
(* settings.redis_nodes.  A Redis key is a sequence: << >> when the key is *)
(* absent, <<v>> when it holds v (Python None is << >> as well).           *)
(* Every endpoint stays reachable (up is TRUE throughout); a lease can     *)
(* disappear by its TTL at any moment, MaxExpire times in a run.           *)
(***************************************************************************)
EXTENDS Integers, Sequences, FiniteSets, TLC

\* ---------------------------------------------------------------- bounds
NWorkers == 2
MaxReq == 2
NNodes == 3
InitStock == 2
MaxQty == 2
MaxExpire == 1
MaxPrice == 2
OutageNodes == 5
LockTimeout == 2
MaxLost == 1

\* ------------------------------------------------------ program constants
lock_retry_attempts == 3

\* len(redis_nodes): the number of endpoints the deployment is configured
\* with (settings.redis_nodes)
VARIABLE redis_nodes

Workers == 1..NWorkers
Nodes == 1..redis_nodes
Single == 0
Endpoints == {Single} \cup Nodes
Quantities == 1..MaxQty
Ids == 1..NWorkers

None == << >>
Some(v) == <<v>>
Val(o) == o[1]

VARIABLES
    use_redlock,   \* deployment mode: FALSE single endpoint, TRUE redis_nodes
    style,         \* purchase method served: "single" | "sync" | "async"
    budget,        \* number of requests the clients send in this run
    stock,         \* stock[e]: key stock:{id} on endpoint e
    lock,          \* lock[e]: key lock:stock:{id} on endpoint e
    up,            \* up[e]: endpoint e answers (FALSE: every call raises)
    productRow,    \* the Product row exists in the relational store
    dbStock,       \* Product.stock (the mirror)
    ledger,        \* the durable Purchase rows: [id, quantity]
    started,       \* number of requests begun so far
    pc,            \* pc[w]: position of worker w in its request
    tok,           \* tok[w]: number of the request w serves (its lock_id)
    qty,           \* qty[w]: quantity argument
    attempt,       \* attempt[w]: loop variable of decrease_stock
    todo,          \* todo[w]: endpoints the current loop has still to visit
    acquired,      \* acquired[w]: acquired_locks
    success_count, \* success_count[w]
    ret,           \* ret[w]: value returned by the decrement method
    released,      \* released[w]: value returned by _release_lock
    seen,          \* seen[w][n]: what endpoint n answered to get_stock
    cur,           \* cur[w]: current_redis_stock read for the mirror update
    outcome,       \* outcome[w]: how the last purchase call of w ended
    stock0,        \* history: stock0[w][e]: stock[e] when w's request began
    alone,         \* history: no other request ran during the request of w
    compensated,   \* history: the compensation of w raised the counter
    seeded,        \* history: the stock key the endpoints were seeded with
    committed,     \* history: total quantity of decrements that returned True
    commit_failed, \* history: a relational commit has raised
    expired,       \* history: number of leases removed by their TTL
    seed_reply,    \* what the last direct call of initialize_stock returned
    price,         \* Product.price
    total_price,   \* total_price[w]: product.price * quantity of the request
    products,      \* the Product rows of one name: [id, stock]
    hot,           \* hot[i]: key stock:{i}, the counter of product id i
    name_lock,     \* key lock:product:create:{name}
    cpc,           \* cpc[c]: position of creator c in create_product
    product,       \* product[c]: id of the row c inserted (none: no row)
    cstock,        \* cstock[c]: the stock argument of c
    why,           \* why[c]: what made create_product of c raise
    created,       \* created[c]: how create_product of c ended
    lapsed,        \* history: number of name leases removed by their TTL
    vpc,           \* position of the caller of get_product_with_stock
    vdb,           \* its db_stock
    view,          \* what get_product_with_stock returned
    raced,         \* history: its SET NX found the counter present
    aged,          \* the lease Redis is timing: its token and its age
    lost           \* history: number of replies of an endpoint that got lost

vars == <<redis_nodes, use_redlock, style, budget, stock, lock, up,
          productRow, dbStock,
          ledger, started, pc, tok, qty, total_price, attempt, todo,
          acquired,
          success_count, ret,
          released, seen, cur, outcome, stock0, alone, compensated,
          seeded, committed, commit_failed, expired, seed_reply, price,
          products, hot, name_lock, cpc, product, cstock, why, created,
          lapsed, vpc, vdb, view, raced, aged, lost>>

\* the state of the two stores
stores == <<stock, lock, dbStock, ledger>>

\* the arguments of a request and what get_product loaded for it
args == <<qty, total_price>>

\* what belongs to the product catalogue, not to a purchase
creation ==
    <<products, hot, name_lock, cpc, product, cstock, why, created, lapsed>>

viewing == <<vpc, vdb, view, raced>>

catalog == <<seed_reply, price, creation, viewing, aged, lost>>

\* what the purchase methods never change
config ==
    <<redis_nodes, use_redlock, style, budget, up, productRow, seeded,
      catalog>>

\* the requests and their history
requests ==
    <<started, pc, tok, args, attempt, todo, acquired, success_count, ret,
      released, seen, cur, outcome, stock0, alone, compensated, committed,
      commit_failed, expired>>

\* ------------------------------------------------------- Redis operations
\* Each operation gives the key after the call and the reply to the client.

\* faulty variant: SET without NX
set_overwrite(key, value) == [key |-> Some(value), reply |-> TRUE]

\* redis.set(key, value, nx=True[, ex=ttl])
set_nx(key, value) ==
    IF key = None
    THEN [key |-> Some(value), reply |-> TRUE]
    ELSE [key |-> key, reply |-> FALSE]

\* faulty variant: the script compares the stock with 0 instead of the quantity
decrease_script_if_positive(key, quantity) ==
    IF key = None THEN [key |-> key, reply |-> -2]
    ELSE IF Val(key) >= 0
    THEN [key |-> Some(Val(key) - quantity), reply |-> Val(key) - quantity]
    ELSE [key |-> key, reply |-> -1]

\* faulty variant: DECRBY without the comparison
decrease_script_unchecked(key, quantity) ==
    IF key = None THEN [key |-> key, reply |-> -2]
    ELSE [key |-> Some(Val(key) - quantity), reply |-> Val(key) - quantity]

\* faulty variant: the script demands more stock than the quantity
decrease_script_strict(key, quantity) ==
    IF key = None THEN [key |-> key, reply |-> -2]
    ELSE IF Val(key) > quantity
    THEN [key |-> Some(Val(key) - quantity), reply |-> Val(key) - quantity]
    ELSE [key |-> key, reply |-> -1]

\* the Lua decrease_script: -2 missing, -1 insufficient, else the remainder
decrease_script(key, quantity) ==
    IF key = None THEN [key |-> key, reply |-> -2]
    ELSE IF Val(key) >= quantity
    THEN [key |-> Some(Val(key) - quantity), reply |-> Val(key) - quantity]
    ELSE [key |-> key, reply |-> -1]

\* faulty variant: the insufficient-stock code -1 passes for a remainder
succeeded_from_minus_one(result) == result >= -1

\* "if result >= 0" on the reply of the decrease_script
succeeded(result) == result >= 0

\* faulty variant: the loop runs once more than max_retries
again_off_by_one(failures) == failures <= lock_retry_attempts

\* "for attempt in range(max_retries)": after so many failed attempts of
\* decrease_stock another attempt follows
again(failures) == failures < lock_retry_attempts

\* "if attempt < max_retries - 1: time.sleep(retry_delay)" after the failed
\* attempt number attempt (from 0)
sleep_after(n) == n < lock_retry_attempts - 1

\* faulty variant: DEL without comparing the stored token
release_script_any(key, lock_id) ==
    [key |-> None, reply |-> IF key = None THEN 0 ELSE 1]

\* the Lua release_script: DEL if the key holds lock_id
release_script(key, lock_id) ==
    IF key = Some(lock_id)
    THEN [key |-> None, reply |-> 1]
    ELSE [key |-> key, reply |-> 0]

\* faulty variant: a stock of 0 reads as no value
get_stock_falsy(key) == IF key = Some(0) THEN None ELSE key

\* InventoryService.get_stock: int(stock) if stock else None
get_stock(key) == key

\* faulty variant: the view always reports synced
stock_view_synced(db_stock, redis_stock) ==
    [db_stock |-> db_stock, redis_stock |-> redis_stock, synced |-> TRUE]

\* the dict get_product_with_stock returns (without the product)
stock_view(db_stock, redis_stock) ==
    [db_stock |-> db_stock,
     redis_stock |-> redis_stock,
     synced |-> db_stock = redis_stock]

\* ProductService.get_product_with_stock for an existing product: what the
\* stock view reports, given Product.stock and the hot counter (an absent
\* counter is initialised from Product.stock with SET NX)
get_product_with_stock(db_stock, key) ==
    LET found == get_stock(key)
        success == set_nx(key, db_stock).reply
        again_found == get_stock(set_nx(key, db_stock).key)
        redis_stock == IF found # None THEN Val(found)
                       ELSE IF success THEN db_stock
                       ELSE IF again_found # None THEN Val(again_found)
                       ELSE db_stock
    IN  stock_view(db_stock, redis_stock)

\* faulty variant: every endpoint is required
quorum_all == redis_nodes

\* faulty variant: half of the endpoints is enough
quorum_half == redis_nodes \div 2

\* RedlockManualService: quorum = len(redis_nodes) // 2 + 1
quorum == (redis_nodes \div 2) + 1

\* the rollback_script of the quorum decrement: INCRBY KEYS[1] ARGV[1]
\* (INCRBY on an absent key creates it from 0)
rollback_script(key, quantity) ==
    IF key = None THEN Some(quantity) ELSE Some(Val(key) + quantity)

\* PurchaseService.purchase_product, lines 115-118: the compensation calls
\* InventoryService.increase_stock, which InventoryService does not define;
\* the AttributeError is swallowed by "except Exception: pass" and the key
\* stays as it is.
increase_stock(key, quantity) == key

\* stock_values of RedlockManualService.get_stock, given what each endpoint
\* answered (None: no value, or the call raised)
Responders(answers) == {n \in Nodes : answers[n] # None}

Count(answers, v) ==
    Cardinality({n \in Responders(answers) : Val(answers[n]) = v})

\* faulty variant: a value is returned as soon as any endpoint answered
quorum_get_stock_any(answers) ==
    IF Responders(answers) = {} THEN {None}
    ELSE {Some(v) : v \in {Val(answers[n]) : n \in
            {m \in Responders(answers) :
                \A k \in Responders(answers) :
                    Count(answers, Val(answers[m]))
                        >= Count(answers, Val(answers[k]))}}}

\* RedlockManualService.get_stock: the possible results (a tie between most
\* frequent values is broken by the iteration order of a Python set)
quorum_get_stock(answers) ==
    IF Cardinality(Responders(answers)) < quorum THEN {None}
    ELSE {Some(v) : v \in {Val(answers[n]) : n \in
            {m \in Responders(answers) :
                \A k \in Responders(answers) :
                    Count(answers, Val(answers[m]))
                        >= Count(answers, Val(answers[k]))}}}

\* order in which a loop over endpoints visits them: the sync methods iterate
\* the list in order, the async ones gather one task per endpoint
Pick(w, S) ==
    IF style = "sync"
    THEN {n \in S : \A m \in S : n <= m}
    ELSE S

\* total quantity of a set of Purchase rows
RECURSIVE SumQty(_)
SumQty(rows) ==
    IF rows = {} THEN 0
    ELSE LET x == CHOOSE y \in rows : TRUE
         IN x.quantity + SumQty(rows \ {x})

\* requests being served (scheduling style (a): one in-flight request per
\* worker of the pool)
InFlight == {w \in Workers : pc[w] # "idle"}

\* ------------------------------------------------------------------- Init

\* no request has been made yet
Quiet ==
    /\ lost = 0
    /\ aged = [token |-> 0, age |-> 0]
    /\ vpc = "idle"
    /\ vdb = 0
    /\ view = None
    /\ raced = FALSE
    /\ products = {}
    /\ name_lock = None
    /\ cpc = [c \in Workers |-> "idle"]
    /\ product = [c \in Workers |-> None]
    /\ cstock = [c \in Workers |-> 0]
    /\ why = [c \in Workers |-> "none"]
    /\ created = [c \in Workers |-> "none"]
    /\ lapsed = 0
    /\ seed_reply = None
    /\ price = 1
    /\ total_price = [w \in Workers |-> 0]
    /\ ledger = {}
    /\ started = 0
    /\ pc = [w \in Workers |-> "idle"]
    /\ tok = [w \in Workers |-> 0]
    /\ qty = [w \in Workers |-> 0]
    /\ attempt = [w \in Workers |-> 0]
    /\ todo = [w \in Workers |-> {}]
    /\ acquired = [w \in Workers |-> {}]
    /\ success_count = [w \in Workers |-> 0]
    /\ ret = [w \in Workers |-> FALSE]
    /\ released = [w \in Workers |-> FALSE]
    /\ seen = [w \in Workers |-> [n \in Nodes |-> None]]
    /\ cur = [w \in Workers |-> None]
    /\ outcome = [w \in Workers |-> "none"]
    /\ stock0 = [w \in Workers |-> [e \in Endpoints |-> None]]
    /\ alone = [w \in Workers |-> TRUE]
    /\ compensated = [w \in Workers |-> FALSE]
    /\ committed = 0
    /\ commit_failed = FALSE
    /\ expired = 0

\* the stores and the workers before the first request of a run
Boot ==
    /\ redis_nodes = NNodes
    /\ use_redlock \in BOOLEAN
    /\ style \in IF use_redlock THEN {"sync", "async"} ELSE {"single"}
    /\ seeded \in {None, Some(InitStock)}
    /\ stock = [e \in Endpoints |->
                  IF (e = Single) = use_redlock THEN None ELSE seeded]
    /\ lock = [e \in Endpoints |-> None]
    /\ up = [e \in Endpoints |-> TRUE]
    /\ productRow \in BOOLEAN
    /\ dbStock = InitStock
    /\ hot = [i \in Ids |-> None]
    /\ Quiet

Init == Boot /\ budget = MaxReq

InitSingle == Init /\ ~use_redlock

InitQuorum == Init /\ use_redlock

\* ---------------------------------------------- entry and exit of a request

\* a purchase method is entered by worker w, the first free worker of the
\* pool (workers are interchangeable): arguments and request number;
\* ProductService.get_product decides between going on (to position first)
\* and raising ProductNotFoundException
Enter(w, q, first) ==
    /\ pc[w] = "idle"
    /\ \A x \in Workers : x < w => pc[x] # "idle"
    /\ started < budget
    /\ started' = started + 1
    /\ tok' = [tok EXCEPT ![w] = started + 1]
    /\ qty' = [qty EXCEPT ![w] = q]
    /\ total_price' = [total_price EXCEPT ![w] = price * q]
    /\ ret' = [ret EXCEPT ![w] = FALSE]
    /\ released' = [released EXCEPT ![w] = FALSE]
    /\ stock0' = [stock0 EXCEPT ![w] = stock]
    /\ alone' = [x \in Workers |->
                    IF x = w THEN InFlight = {}
                    ELSE IF x \in InFlight THEN FALSE ELSE alone[x]]
    /\ pc' = [pc EXCEPT ![w] = IF productRow THEN first ELSE "idle"]
    /\ outcome' = [outcome EXCEPT ![w] =
                      IF productRow THEN "none" ELSE "ProductNotFound"]
    /\ compensated' = [compensated EXCEPT ![w] = FALSE]
    /\ todo' = [todo EXCEPT ![w] =
                   IF productRow /\ use_redlock THEN Nodes ELSE {}]
    /\ UNCHANGED <<commit_failed,
                   config, stores, attempt, acquired, success_count, seen,
                   cur, committed, expired>>

\* the purchase method of w returns or raises: kind is what the caller sees
Return(w, kind) ==
    /\ pc' = [pc EXCEPT ![w] = "idle"]
    /\ outcome' = [outcome EXCEPT ![w] = kind]
    /\ attempt' = [attempt EXCEPT ![w] = 0]
    /\ seen' = [seen EXCEPT ![w] = [n \in Nodes |-> None]]
    /\ cur' = [cur EXCEPT ![w] = None]

\* ------------------------------------------- PurchaseService.purchase_product

\* entry of purchase_product
Start(w, q) ==
    /\ ~use_redlock
    /\ Enter(w, q, "acquire")

\* InventoryService._acquire_lock inside the retry loop of decrease_stock
Acquire(w) ==
    /\ pc[w] = "acquire"
    /\ lock' = [lock EXCEPT ![Single] = set_nx(lock[Single], tok[w]).key]
    /\ IF set_nx(lock[Single], tok[w]).reply
       THEN /\ pc' = [pc EXCEPT ![w] = "eval"]
            /\ UNCHANGED attempt
       ELSE /\ attempt' = [attempt EXCEPT ![w] = attempt[w] + 1]
            /\ pc' = [pc EXCEPT ![w] =
                  IF again(attempt[w] + 1)
                  THEN "acquire" ELSE "diagnose"]
    /\ UNCHANGED <<commit_failed,
                   config, stock, dbStock, ledger, started, tok, args,
                   todo, acquired, success_count, ret, released, seen, cur,
                   outcome, stock0, alone, compensated, committed, expired>>

\* redis.eval(decrease_script, ...) under the lock
Eval(w) ==
    /\ pc[w] = "eval"
    /\ LET result == decrease_script(stock[Single], qty[w])
       IN /\ stock' = [stock EXCEPT ![Single] = result.key]
          /\ ret' = [ret EXCEPT ![w] = succeeded(result.reply)]
          /\ committed' = IF succeeded(result.reply)
                          THEN committed + qty[w] ELSE committed
    /\ pc' = [pc EXCEPT ![w] = "release"]
    /\ UNCHANGED <<commit_failed,
                   config, lock, dbStock, ledger, started, tok, args,
                   attempt, todo, acquired, success_count, released, seen,
                   cur, outcome, stock0, alone, compensated, expired>>

\* the finally clause of decrease_stock: InventoryService._release_lock
Release(w) ==
    /\ pc[w] = "release"
    /\ LET result == release_script(lock[Single], tok[w])
       IN /\ lock' = [lock EXCEPT ![Single] = result.key]
          /\ released' = [released EXCEPT ![w] = result.reply # 0]
    /\ pc' = [pc EXCEPT ![w] = IF ret[w] THEN "ledger" ELSE "diagnose"]
    /\ UNCHANGED <<commit_failed,
                   config, stock, dbStock, ledger, started, tok, args,
                   attempt, todo, acquired, success_count, ret, seen, cur,
                   outcome, stock0, alone, compensated, committed, expired>>

\* the hot counter as the purchase method of w reads it
ReadHot(w) ==
    IF style = "single"
    THEN {get_stock(stock[Single])}
    ELSE quorum_get_stock(seen[w])

\* the exception the branch "if not stock_decreased" raises
failure_kind(current_stock, quantity) ==
    IF current_stock = None THEN "ProductNotFound"
    ELSE IF Val(current_stock) < quantity THEN "InsufficientStock"
    ELSE "LockAcquisitionFailure"

\* the branch "if not stock_decreased" of the purchase methods
Diagnose(w) ==
    /\ pc[w] = "diagnose"
    /\ \E current_stock \in ReadHot(w) :
          Return(w, failure_kind(current_stock, qty[w]))
    /\ UNCHANGED <<commit_failed,
                   config, stores, started, tok, args, todo, acquired,
                   success_count, ret, released, stock0, alone, compensated,
                   committed, expired>>

\* db.add(purchase) and the read of the hot counter for the mirror
Ledger(w) ==
    /\ pc[w] = "ledger"
    /\ \E current_redis_stock \in ReadHot(w) :
         /\ cur' = [cur EXCEPT ![w] = current_redis_stock]
         /\ seen' = [seen EXCEPT ![w] = [n \in Nodes |-> None]]
         /\ pc' = [pc EXCEPT ![w] =
               IF current_redis_stock # None THEN "sync" ELSE "commit"]
    /\ UNCHANGED <<commit_failed,
                   config, stores, started, tok, args, attempt, todo,
                   acquired, success_count, ret, released, outcome, stock0,
                   alone, compensated, committed, expired>>

\* faulty variant: the row records one unit whatever the quantity
Row_unit(w) ==
    [id |-> tok[w], quantity |-> 1, total_price |-> total_price[w]]

\* faulty variant: the total price is worked out from the Product row as it
\* is when the row is written
Row_repriced(w) ==
    [id |-> tok[w], quantity |-> qty[w], total_price |-> price * qty[w]]

\* the Purchase row of the request of w
Row(w) ==
    [id |-> tok[w], quantity |-> qty[w], total_price |-> total_price[w]]

\* ProductService.sync_stock_to_db: product.stock = redis_stock; db.commit()
\* flushes the pending Purchase row with it, or raises
SyncStockToDb(w) ==
    /\ pc[w] = "sync"
    /\ \/ /\ dbStock' = Val(cur[w])
          /\ ledger' = ledger \cup {Row(w)}
          /\ pc' = [pc EXCEPT ![w] = "commit"]
          /\ UNCHANGED commit_failed
       \/ /\ pc' = [pc EXCEPT ![w] = "failed"]
          /\ commit_failed' = TRUE
          /\ UNCHANGED <<dbStock, ledger>>
    /\ UNCHANGED <<config, stock, lock, started, tok, args, attempt,
                   todo, acquired, success_count, ret, released, seen, cur,
                   outcome, stock0, alone, compensated, committed, expired>>

\* db.commit(); db.refresh(purchase); return purchase  -- or either raises
Commit(w) ==
    /\ pc[w] = "commit"
    /\ \/ /\ ledger' = ledger \cup {Row(w)}
          /\ Return(w, "ok")
          /\ UNCHANGED commit_failed
       \/ /\ pc' = [pc EXCEPT ![w] = "failed"]
          /\ commit_failed' = TRUE
          /\ UNCHANGED <<ledger, outcome, attempt, seen, cur>>
    /\ UNCHANGED <<config, stock, lock, dbStock, started, tok, args,
                   todo, acquired, success_count, ret, released, stock0,
                   alone, compensated, committed, expired>>

\* what the call InventoryService.increase_stock(...) raises: the class has
\* no such method
increase_stock_error == Some("AttributeError")

\* faulty variant: an error of the compensation reaches the caller
raise_latest(e, compensation_error) ==
    IF compensation_error # None THEN Val(compensation_error) ELSE e

\* "try: <compensation> except Exception: pass" and then "raise e": what the
\* except clause raises to the caller
raise_e(e, compensation_error) == e

\* the except clause: db.rollback(), the compensation of purchase_product
\* (the Redlock variants have none), raise e
Failed(w) ==
    /\ pc[w] = "failed"
    /\ stock' = IF style = "single"
                THEN [stock EXCEPT ![Single] =
                        increase_stock(stock[Single], qty[w])]
                ELSE stock
    /\ compensated' = [compensated EXCEPT ![w] = stock' # stock]
    /\ Return(w, raise_e("InternalFailure",
                          IF style = "single"
                          THEN increase_stock_error ELSE None))
    /\ UNCHANGED <<commit_failed,
                   config, lock, dbStock, ledger, started, tok, args,
                   todo, acquired, success_count, ret, released, stock0,
                   alone, committed, expired>>

\* the TTL (ex=settings.lock_timeout_seconds) removes a lease
Expire(e) ==
    /\ lock[e] # None
    /\ expired < MaxExpire
    /\ lock' = [lock EXCEPT ![e] = None]
    /\ expired' = expired + 1
    /\ UNCHANGED <<commit_failed,
                   config, stock, dbStock, ledger, started, pc, tok,
                   args, attempt, todo, acquired, success_count, ret, released,
                   seen, cur, outcome, stock0, alone, compensated, committed>>

NextSingle ==
    \/ \E w \in Workers, q \in Quantities : Start(w, q)
    \/ \E w \in Workers : Acquire(w)
    \/ \E w \in Workers : Eval(w)
    \/ \E w \in Workers : Release(w)
    \/ \E w \in Workers : Diagnose(w)
    \/ \E w \in Workers : Ledger(w)
    \/ \E w \in Workers : SyncStockToDb(w)
    \/ \E w \in Workers : Commit(w)
    \/ \E w \in Workers : Failed(w)
    \/ \E e \in Endpoints : Expire(e)

SpecSingle == InitSingle /\ [][NextSingle]_vars

\* ------------------- PurchaseService.purchase_with_redlock_manual[_async]

\* entry of purchase_with_redlock_manual (style "sync") or of
\* purchase_with_redlock_manual_async (style "async")
QStart(w, q) ==
    /\ use_redlock
    /\ Enter(w, q, "qacquire")

\* a quorum decrement leaves its last loop with result res: the locks in
\* acq are released next (none: the method returns at once, and the purchase
\* method goes on to RedlockManualService.get_stock)
QLeave(w, res, acq) ==
    /\ ret' = [ret EXCEPT ![w] = res]
    /\ committed' = IF res THEN committed + qty[w] ELSE committed
    /\ todo' = [todo EXCEPT ![w] = IF acq # {} THEN acq ELSE Nodes]
    /\ acquired' = [acquired EXCEPT ![w] = {}]
    /\ success_count' = [success_count EXCEPT ![w] = 0]
    /\ pc' = [pc EXCEPT ![w] = IF acq # {} THEN "qrelease" ELSE "qread"]

\* step 1 on endpoint n (redis.set nx ex), and step 2 after the last endpoint
QAcquire(w, n) ==
    /\ pc[w] = "qacquire"
    /\ n \in Pick(w, todo[w])
    /\ LET got == up[n] /\ set_nx(lock[n], tok[w]).reply
           acq == IF got THEN acquired[w] \cup {n} ELSE acquired[w]
           rest == todo[w] \ {n}
       IN /\ lock' = IF up[n]
                     THEN [lock EXCEPT ![n] = set_nx(lock[n], tok[w]).key]
                     ELSE lock
          /\ IF rest # {}
             THEN /\ todo' = [todo EXCEPT ![w] = rest]
                  /\ acquired' = [acquired EXCEPT ![w] = acq]
                  /\ UNCHANGED <<pc, ret, success_count, committed>>
             ELSE IF Cardinality(acq) >= quorum
             THEN /\ pc' = [pc EXCEPT ![w] = "qdecrease"]
                  /\ todo' = [todo EXCEPT ![w] = Nodes]
                  /\ acquired' = [acquired EXCEPT ![w] = acq]
                  /\ UNCHANGED <<ret, success_count, committed>>
             ELSE QLeave(w, FALSE, acq)
    /\ UNCHANGED <<commit_failed,
                   config, stock, dbStock, ledger, started, tok, args,
                   attempt, released, seen, cur, outcome, stock0, alone,
                   compensated, expired>>

\* step 3 on endpoint n (decrease_script), and step 4 after the last endpoint
QDecrease(w, n) ==
    /\ pc[w] = "qdecrease"
    /\ n \in Pick(w, todo[w])
    /\ LET result == decrease_script(stock[n], qty[w])
           ok == up[n] /\ succeeded(result.reply)
           cnt == IF ok THEN success_count[w] + 1 ELSE success_count[w]
           rest == todo[w] \ {n}
       IN /\ stock' = IF up[n] THEN [stock EXCEPT ![n] = result.key] ELSE stock
          /\ IF rest # {}
             THEN /\ todo' = [todo EXCEPT ![w] = rest]
                  /\ success_count' = [success_count EXCEPT ![w] = cnt]
                  /\ UNCHANGED <<pc, ret, acquired, committed>>
             ELSE IF cnt >= quorum
             THEN QLeave(w, TRUE, acquired[w])
             ELSE /\ pc' = [pc EXCEPT ![w] = "qrollback"]
                  /\ todo' = [todo EXCEPT ![w] = Nodes]
                  /\ success_count' = [success_count EXCEPT ![w] = 0]
                  /\ UNCHANGED <<ret, acquired, committed>>
    /\ UNCHANGED <<commit_failed,
                   config, lock, dbStock, ledger, started, tok, args,
                   attempt, released, seen, cur, outcome, stock0, alone,
                   compensated, expired>>

\* the rollback loop on endpoint n (rollback_script); return False after it
QRollback(w, n) ==
    /\ pc[w] = "qrollback"
    /\ n \in Pick(w, todo[w])
    /\ stock' = IF up[n]
                THEN [stock EXCEPT ![n] = rollback_script(stock[n], qty[w])]
                ELSE stock
    /\ IF todo[w] \ {n} # {}
       THEN /\ todo' = [todo EXCEPT ![w] = todo[w] \ {n}]
            /\ UNCHANGED <<pc, ret, acquired, success_count, committed>>
       ELSE QLeave(w, FALSE, acquired[w])
    /\ UNCHANGED <<commit_failed,
                   config, lock, dbStock, ledger, started, tok, args,
                   attempt, released, seen, cur, outcome, stock0, alone,
                   compensated, expired>>

\* _release_locks / _release_locks_async on endpoint n of acquired_locks
QRelease(w, n) ==
    /\ pc[w] = "qrelease"
    /\ n \in Pick(w, todo[w])
    /\ lock' = IF up[n]
               THEN [lock EXCEPT ![n] = release_script(lock[n], tok[w]).key]
               ELSE lock
    /\ IF todo[w] \ {n} # {}
       THEN /\ todo' = [todo EXCEPT ![w] = todo[w] \ {n}]
            /\ UNCHANGED pc
       ELSE /\ todo' = [todo EXCEPT ![w] = Nodes]
            /\ pc' = [pc EXCEPT ![w] = "qread"]
    /\ UNCHANGED <<commit_failed,
                   config, stock, dbStock, ledger, started, tok, args,
                   attempt, acquired, success_count, ret, released, seen, cur,
                   outcome, stock0, alone, compensated, committed, expired>>

\* RedlockManualService.get_stock on endpoint n (a plain loop in list order,
\* also in the async purchase method); what the purchase method does with
\* the result is Diagnose or Ledger
QRead(w, n) ==
    /\ pc[w] = "qread"
    /\ n \in todo[w]
    /\ \A m \in todo[w] : n <= m
    /\ seen' = [seen EXCEPT ![w][n] = IF up[n] THEN stock[n] ELSE None]
    /\ IF todo[w] \ {n} # {}
       THEN /\ todo' = [todo EXCEPT ![w] = todo[w] \ {n}]
            /\ UNCHANGED pc
       ELSE /\ todo' = [todo EXCEPT ![w] = {}]
            /\ pc' = [pc EXCEPT ![w] = IF ret[w] THEN "ledger" ELSE "diagnose"]
    /\ UNCHANGED <<commit_failed,
                   config, stores, started, tok, args, attempt,
                   acquired, success_count, ret, released, cur, outcome,
                   stock0, alone, compensated, committed, expired>>

NextQuorum ==
    \/ \E w \in Workers, q \in Quantities : QStart(w, q)
    \/ \E w \in Workers, n \in Nodes : QAcquire(w, n)
    \/ \E w \in Workers, n \in Nodes : QDecrease(w, n)
    \/ \E w \in Workers, n \in Nodes : QRollback(w, n)
    \/ \E w \in Workers, n \in Nodes : QRelease(w, n)
    \/ \E w \in Workers, n \in Nodes : QRead(w, n)
    \/ \E w \in Workers : Diagnose(w)
    \/ \E w \in Workers : Ledger(w)
    \/ \E w \in Workers : SyncStockToDb(w)
    \/ \E w \in Workers : Commit(w)
    \/ \E w \in Workers : Failed(w)
    \/ \E n \in Nodes : Expire(n)

SpecQuorum == InitQuorum /\ [][NextQuorum]_vars

Next == NextSingle \/ NextQuorum

Spec == Init /\ [][Next]_vars

\* ---------------------------------------- a burst of purchase_product calls

\* one more request of quantity 1 than the seeded stock
InitBurst ==
    /\ Boot
    /\ ~use_redlock
    /\ productRow
    /\ seeded = Some(InitStock)
    /\ budget = InitStock + 1

NextBurst ==
    \/ \E w \in Workers : Start(w, 1)
    \/ \E w \in Workers : Acquire(w)
    \/ \E w \in Workers : Eval(w)
    \/ \E w \in Workers : Release(w)
    \/ \E w \in Workers : Diagnose(w)
    \/ \E w \in Workers : Ledger(w)
    \/ \E w \in Workers : SyncStockToDb(w)
    \/ \E w \in Workers : Commit(w)
    \/ \E w \in Workers : Failed(w)
    \/ Expire(Single)

SpecBurst == InitBurst /\ [][NextBurst]_vars

\* ------------------------------ RedlockManualService.get_stock on its own

\* what an endpoint may hold under the stock key
StockValues == {None} \cup {Some(v) : v \in 0..InitStock}

\* the endpoints hold any values and any of them may be unreachable
InitRead ==
    /\ redis_nodes = NNodes
    /\ use_redlock = TRUE
    /\ style = "sync"
    /\ seeded = None
    /\ stock \in [Endpoints -> StockValues]
    /\ stock[Single] = None
    /\ lock = [e \in Endpoints |-> None]
    /\ up \in [Endpoints -> BOOLEAN]
    /\ up[Single]
    /\ productRow = TRUE
    /\ dbStock = InitStock
    /\ budget = 1
    /\ hot = [i \in Ids |-> None]
    /\ Quiet

\* RedlockManualService.get_stock (RedlockService.get_stock is the same
\* code) called by worker w: redis.get on every endpoint, then the result
GetStock(w) ==
    /\ pc[w] = "idle"
    /\ \A x \in Workers : x < w => pc[x] # "idle"
    /\ started < budget
    /\ started' = started + 1
    /\ LET answers == [n \in Nodes |-> IF up[n] THEN stock[n] ELSE None]
       IN /\ seen' = [seen EXCEPT ![w] = answers]
          /\ \E result \in quorum_get_stock(answers) :
                cur' = [cur EXCEPT ![w] = result]
    /\ outcome' = [outcome EXCEPT ![w] = "read"]
    /\ UNCHANGED <<commit_failed,
                   config, stores, pc, tok, args, attempt, todo, acquired,
                   success_count, ret, released, stock0, alone, compensated,
                   committed, expired>>

NextRead == \E w \in Workers : GetStock(w)

SpecRead == InitRead /\ [][NextRead]_vars

\* ------------------------- one quorum purchase while endpoints are down

\* OutageNodes endpoints seeded with the same stock, any of them unreachable,
\* and a single purchase request
InitOutage ==
    /\ redis_nodes = OutageNodes
    /\ use_redlock = TRUE
    /\ style \in {"sync", "async"}
    /\ seeded \in {Some(v) : v \in 1..InitStock}
    /\ stock = [e \in Endpoints |-> IF e = Single THEN None ELSE seeded]
    /\ lock = [e \in Endpoints |-> None]
    /\ up \in [Endpoints -> BOOLEAN]
    /\ up[Single]
    /\ productRow = TRUE
    /\ dbStock = Val(seeded)
    /\ budget = 1
    /\ hot = [i \in Ids |-> None]
    /\ Quiet

SpecOutage == InitOutage /\ [][NextQuorum]_vars

\* ------------------------- one quorum decrement with no concurrent client

\* the token of a client that takes no step: the lease it left on an endpoint
Stranger == MaxReq + 1

\* faulty variant: no rollback after a failed decrement quorum
decrease_stock_sync_no_rollback(stock_0, lock_0, lock_id, quantity) ==
    LET acquired_locks ==
            {n \in Nodes : up[n] /\ set_nx(lock_0[n], lock_id).reply}
        result == [n \in Nodes |-> decrease_script(stock_0[n], quantity)]
        successes == {n \in Nodes : up[n] /\ succeeded(result[n].reply)}
    IN  [ret |-> Cardinality(acquired_locks) >= quorum
                    /\ Cardinality(successes) >= quorum,
         stock |-> [n \in Nodes |->
                      IF Cardinality(acquired_locks) >= quorum /\ up[n]
                      THEN result[n].key ELSE stock_0[n]],
         lock |-> lock_0]

\* RedlockManualService.decrease_stock_sync run from start to end with no
\* other client and no expiry, as its loops run in list order: what it
\* returns and the stock and lock keys of the endpoints after it, given the
\* keys before it (an endpoint that is down raises on every call)
decrease_stock_sync(stock_0, lock_0, lock_id, quantity) ==
    LET acquired_locks ==
            {n \in Nodes : up[n] /\ set_nx(lock_0[n], lock_id).reply}
        result == [n \in Nodes |-> decrease_script(stock_0[n], quantity)]
        successes == {n \in Nodes : up[n] /\ succeeded(result[n].reply)}
    IN  IF Cardinality(acquired_locks) < quorum
        THEN [ret |-> FALSE, stock |-> stock_0, lock |-> lock_0]
        ELSE IF Cardinality(successes) >= quorum
        THEN [ret |-> TRUE,
              stock |-> [n \in Nodes |->
                           IF up[n] THEN result[n].key ELSE stock_0[n]],
              lock |-> lock_0]
        ELSE [ret |-> FALSE,
              stock |-> [n \in Nodes |->
                           IF up[n]
                           THEN rollback_script(result[n].key, quantity)
                           ELSE stock_0[n]],
              lock |-> lock_0]

\* the endpoints hold any stock, some hold the lease of a stranger, any of
\* them may be down; one purchase request, sync or async
InitAlone ==
    /\ redis_nodes = NNodes
    /\ use_redlock = TRUE
    /\ style \in {"sync", "async"}
    /\ seeded = None
    /\ stock \in [Endpoints -> StockValues]
    /\ stock[Single] = None
    /\ lock \in [Endpoints -> {None, Some(Stranger)}]
    /\ lock[Single] = None
    /\ up \in [Endpoints -> BOOLEAN]
    /\ up[Single]
    /\ productRow = TRUE
    /\ dbStock = InitStock
    /\ budget = 1
    /\ hot = [i \in Ids |-> None]
    /\ Quiet

\* the quorum purchase methods while no lease expires
NextAlone ==
    \/ \E w \in Workers, q \in Quantities : QStart(w, q)
    \/ \E w \in Workers, n \in Nodes : QAcquire(w, n)
    \/ \E w \in Workers, n \in Nodes : QDecrease(w, n)
    \/ \E w \in Workers, n \in Nodes : QRollback(w, n)
    \/ \E w \in Workers, n \in Nodes : QRelease(w, n)
    \/ \E w \in Workers, n \in Nodes : QRead(w, n)
    \/ \E w \in Workers : Diagnose(w)
    \/ \E w \in Workers : Ledger(w)
    \/ \E w \in Workers : SyncStockToDb(w)
    \/ \E w \in Workers : Commit(w)
    \/ \E w \in Workers : Failed(w)

SpecAlone == InitAlone /\ [][NextAlone]_vars

\* ------------------- purchase_with_redlock_manual_async, task cancelled

\* the task running purchase_with_redlock_manual_async is cancelled while it
\* awaits _release_locks_async in the finally clause of decrease_stock_async
\* (the last await of the request): the release tasks in R had reached the
\* executor and run, the others are cancelled with the gather;
\* asyncio.CancelledError is a BaseException, so no "except Exception"
\* clause of the purchase method sees it, and it reaches the caller
Cancel(w) ==
    /\ style = "async"
    /\ pc[w] = "qrelease"
    /\ \E R \in SUBSET todo[w] :
          lock' = [e \in Endpoints |->
                     IF e \in R /\ up[e]
                     THEN release_script(lock[e], tok[w]).key
                     ELSE lock[e]]
    /\ todo' = [todo EXCEPT ![w] = {}]
    /\ Return(w, "CancelledError")
    /\ UNCHANGED <<config, stock, dbStock, ledger, started, tok, args,
                   acquired, success_count, ret, released, stock0, alone,
                   compensated, committed, commit_failed, expired>>

\* the async purchase method on seeded endpoints
InitCancel ==
    /\ InitQuorum
    /\ style = "async"
    /\ productRow
    /\ seeded = Some(InitStock)

NextCancel ==
    \/ NextQuorum
    \/ \E w \in Workers : Cancel(w)

SpecCancel == InitCancel /\ [][NextCancel]_vars

\* --------------------------- quorum purchases with replies that get lost

\* step 1 on endpoint n when the reply does not arrive: the endpoint runs
\* the SET NX EX, redis.set raises (timeout, connection reset) and the
\* "except Exception: continue" leaves n out of acquired_locks
QAcquireLost(w, n) ==
    /\ pc[w] = "qacquire"
    /\ n \in Pick(w, todo[w])
    /\ up[n]
    /\ lost < MaxLost
    /\ lost' = lost + 1
    /\ lock' = [lock EXCEPT ![n] = set_nx(lock[n], tok[w]).key]
    /\ IF todo[w] \ {n} # {}
       THEN /\ todo' = [todo EXCEPT ![w] = todo[w] \ {n}]
            /\ UNCHANGED <<pc, ret, acquired, success_count, committed>>
       ELSE IF Cardinality(acquired[w]) >= quorum
       THEN /\ pc' = [pc EXCEPT ![w] = "qdecrease"]
            /\ todo' = [todo EXCEPT ![w] = Nodes]
            /\ UNCHANGED <<ret, acquired, success_count, committed>>
       ELSE QLeave(w, FALSE, acquired[w])
    /\ UNCHANGED <<redis_nodes, use_redlock, style, budget, up, productRow,
                   seeded, seed_reply, price, creation, viewing, aged,
                   stock, dbStock, ledger, started, tok, args, attempt,
                   released, seen, cur, outcome, stock0, alone, compensated,
                   commit_failed, expired>>

\* every endpoint answers, the stock is seeded, and at most MaxLost replies
\* get lost
InitLost ==
    /\ InitQuorum
    /\ productRow
    /\ seeded = Some(InitStock)

NextLost ==
    \/ NextQuorum
    \/ \E w \in Workers, n \in Nodes : QAcquireLost(w, n)

SpecLost == InitLost /\ [][NextLost]_vars

\* ------------------- quorum purchases while a minority of endpoints is down

\* the endpoints that do not answer
Down == {n \in Nodes : ~up[n]}

\* NNodes endpoints seeded with the same stock, at most floor(N/2) of them
\* unreachable, and MaxReq purchase requests
InitMinority ==
    /\ redis_nodes = NNodes
    /\ use_redlock = TRUE
    /\ style \in {"sync", "async"}
    /\ seeded = Some(InitStock)
    /\ stock = [e \in Endpoints |-> IF e = Single THEN None ELSE seeded]
    /\ lock = [e \in Endpoints |-> None]
    /\ up \in [Endpoints -> BOOLEAN]
    /\ up[Single]
    /\ Cardinality(Down) <= redis_nodes \div 2
    /\ productRow = TRUE
    /\ dbStock = InitStock
    /\ budget = MaxReq
    /\ hot = [i \in Ids |-> None]
    /\ Quiet

SpecMinority == InitMinority /\ [][NextQuorum]_vars

\* ------------------------------ InventoryService.initialize_stock on its own

\* InventoryService.initialize_stock(product_id, quantity, redis), called
\* directly: redis.set(stock_key, quantity, nx=True); return bool(result)
Seed(quantity) ==
    /\ ~use_redlock
    /\ LET result == set_nx(stock[Single], quantity)
       IN /\ stock' = [stock EXCEPT ![Single] = result.key]
          /\ seed_reply' = Some(result.reply)
          /\ seeded' = IF result.reply THEN Some(quantity) ELSE seeded
    /\ UNCHANGED <<redis_nodes, use_redlock, style, budget, up, productRow,
                   price, creation, viewing, aged, lost, lock, dbStock,
                   ledger, requests>>

\* Product.price is changed from outside the services (none of them writes
\* it)
Reprice(p) ==
    /\ price' = p
    /\ p # price
    /\ UNCHANGED <<redis_nodes, use_redlock, style, budget, up, productRow,
                   seeded, seed_reply, creation, viewing, aged, lost,
                   stores, requests>>

\* the Product row exists, its counter does not yet
InitSeed ==
    /\ Boot
    /\ ~use_redlock
    /\ productRow
    /\ seeded = None
    /\ budget = MaxReq

NextSeed ==
    \/ \E quantity \in 1..InitStock : Seed(quantity)
    \/ \E p \in 1..MaxPrice : Reprice(p)
    \/ NextSingle

SpecSeed == InitSeed /\ [][NextSeed]_vars

\* ------------------------------------------- ProductService.create_product

\* the class of the exception create_product raises for a cause: the two
\* "raise Exception(...)" differ in their message only; an error of the
\* relational store goes on as it is
exception_class(cause) ==
    IF cause = "exists" THEN "ProductAlreadyExistsException"
    ELSE IF cause = "db_error" THEN "SQLAlchemyError"
    ELSE "Exception"

\* faulty variant: the name is not looked up
existing_never(rows) == FALSE

\* db.query(Product).filter(Product.name == name).first()
existing(rows) == rows # {}

\* the id the relational store gives the next Product row (SQLite rowid:
\* one more than the largest id in the table)
next_id(rows) ==
    IF rows = {} THEN 1
    ELSE 1 + CHOOSE i \in {r.id : r \in rows} :
                 \A r \in rows : r.id <= i

\* faulty variant: the row stays
deleted_kept(rows, id) == rows

\* db.delete(product); db.commit()
deleted(rows, id) == {r \in rows : r.id # id}

\* everything but the catalogue
purchasing ==
    <<redis_nodes, use_redlock, style, budget, up, productRow, seeded,
      seed_reply, price, viewing, aged, lost, stores, requests>>

\* redis.set(lock_key, lock_id, nx=True, ex=...) at the entry of
\* create_product(name, price, stock): "if not acquired: raise Exception"
CAcquire(c, stock_arg) ==
    /\ cpc[c] = "idle"
    /\ created[c] = "none"
    /\ \A x \in Workers : x < c => (cpc[x] # "idle" \/ created[x] # "none")
    /\ cstock' = [cstock EXCEPT ![c] = stock_arg]
    /\ name_lock' = set_nx(name_lock, c).key
    /\ IF set_nx(name_lock, c).reply
       THEN /\ cpc' = [cpc EXCEPT ![c] = "check"]
            /\ UNCHANGED <<why, created>>
       ELSE /\ cpc' = [cpc EXCEPT ![c] = "idle"]
            /\ why' = [why EXCEPT ![c] = "lock_held"]
            /\ created' = [created EXCEPT ![c] = exception_class("lock_held")]
    /\ UNCHANGED <<products, hot, product, lapsed, purchasing>>

\* the duplicate-name check: raise ProductAlreadyExistsException (the
\* except clause finds no product and re-raises)
CCheck(c) ==
    /\ cpc[c] = "check"
    /\ IF existing(products)
       THEN /\ why' = [why EXCEPT ![c] = "exists"]
            /\ cpc' = [cpc EXCEPT ![c] = "release"]
       ELSE /\ cpc' = [cpc EXCEPT ![c] = "insert"]
            /\ UNCHANGED why
    /\ UNCHANGED <<products, hot, name_lock, product, cstock, created,
                   lapsed, purchasing>>

\* db.add(product); db.commit(); db.refresh(product)
CInsert(c) ==
    /\ cpc[c] = "insert"
    /\ products' = products \cup
                      {[id |-> next_id(products), stock |-> cstock[c]]}
    /\ product' = [product EXCEPT ![c] = Some(next_id(products))]
    /\ cpc' = [cpc EXCEPT ![c] = "seed"]
    /\ UNCHANGED <<hot, name_lock, cstock, why, created, lapsed, purchasing>>

\* InventoryService.initialize_stock(product.id, stock, redis);
\* "if not success: raise Exception"
CSeed(c) ==
    /\ cpc[c] = "seed"
    /\ LET result == set_nx(hot[Val(product[c])], cstock[c])
       IN /\ hot' = [hot EXCEPT ![Val(product[c])] = result.key]
          /\ IF result.reply
             THEN /\ cpc' = [cpc EXCEPT ![c] = "release"]
                  /\ UNCHANGED why
             ELSE /\ cpc' = [cpc EXCEPT ![c] = "undo"]
                  /\ why' = [why EXCEPT ![c] = "seed_failed"]
    /\ UNCHANGED <<products, name_lock, product, cstock, created, lapsed,
                   purchasing>>

\* the except clause: "if product and product.id: db.delete(product);
\* db.commit()", then raise
CUndo(c) ==
    /\ cpc[c] = "undo"
    /\ products' = deleted(products, Val(product[c]))
    /\ cpc' = [cpc EXCEPT ![c] = "release"]
    /\ UNCHANGED <<hot, name_lock, product, cstock, why, created, lapsed,
                   purchasing>>

\* the finally clause: the release_script on the name lock; then
\* create_product returns the product or the exception goes on
CRelease(c) ==
    /\ cpc[c] = "release"
    /\ name_lock' = release_script(name_lock, c).key
    /\ cpc' = [cpc EXCEPT ![c] = "idle"]
    /\ created' = [created EXCEPT ![c] =
                      IF why[c] = "none" THEN "ok"
                      ELSE exception_class(why[c])]
    /\ UNCHANGED <<products, hot, product, cstock, why, lapsed, purchasing>>

\* the TTL (ex=settings.lock_timeout_seconds) removes the name lease
CExpire ==
    /\ name_lock # None
    /\ lapsed < MaxExpire
    /\ name_lock' = None
    /\ lapsed' = lapsed + 1
    /\ UNCHANGED <<products, hot, cpc, product, cstock, why, created,
                   purchasing>>

\* no product of the name yet; a counter may be left under an id from an
\* earlier life of the table
InitCreate ==
    /\ redis_nodes = NNodes
    /\ use_redlock = FALSE
    /\ style = "single"
    /\ seeded = None
    /\ stock = [e \in Endpoints |-> None]
    /\ lock = [e \in Endpoints |-> None]
    /\ up = [e \in Endpoints |-> TRUE]
    /\ productRow = FALSE
    /\ dbStock = InitStock
    /\ budget = 0
    /\ hot \in [Ids -> {None, Some(0)}]
    /\ Quiet

NextCreate ==
    \/ \E c \in Workers, stock_arg \in 1..InitStock : CAcquire(c, stock_arg)
    \/ \E c \in Workers : CCheck(c)
    \/ \E c \in Workers : CInsert(c)
    \/ \E c \in Workers : CSeed(c)
    \/ \E c \in Workers : CUndo(c)
    \/ \E c \in Workers : CRelease(c)
    \/ CExpire

SpecCreate == InitCreate /\ [][NextCreate]_vars

\* db.add(product); db.commit() raises: no row is stored, product.id is not
\* set, the except clause deletes nothing and re-raises
CInsertFails(c) ==
    /\ cpc[c] = "insert"
    /\ why' = [why EXCEPT ![c] = "db_error"]
    /\ cpc' = [cpc EXCEPT ![c] = "release"]
    /\ UNCHANGED <<products, hot, name_lock, product, cstock, created,
                   lapsed, purchasing>>

NextCreateFaulty ==
    \/ NextCreate
    \/ \E c \in Workers : CInsertFails(c)

\* create_product with a relational store that may fail
SpecCreateFaulty == InitCreate /\ [][NextCreateFaulty]_vars

\* ---------------------------------- ProductService.get_product_with_stock

\* what a step of the stock view leaves alone
unviewed ==
    <<redis_nodes, use_redlock, style, budget, up, productRow, seed_reply,
      price, creation, aged, lost, lock, dbStock, ledger, requests>>

\* product = ProductService.get_product(...); "if product is None: return
\* None"; db_stock = product.stock
VStart ==
    /\ ~use_redlock
    /\ vpc = "idle"
    /\ view = None
    /\ IF productRow
       THEN /\ vdb' = dbStock
            /\ vpc' = "get"
            /\ UNCHANGED view
       ELSE /\ view' = Some("None")
            /\ UNCHANGED <<vdb, vpc>>
    /\ UNCHANGED <<stock, seeded, raced, unviewed>>

\* redis_stock = InventoryService.get_stock(...); with a value the view
\* returns
VGet ==
    /\ vpc = "get"
    /\ IF get_stock(stock[Single]) # None
       THEN /\ view' = Some(stock_view(vdb, Val(get_stock(stock[Single]))))
            /\ vpc' = "idle"
       ELSE /\ vpc' = "seed"
            /\ UNCHANGED view
    /\ UNCHANGED <<stock, seeded, vdb, raced, unviewed>>

\* success = InventoryService.initialize_stock(product_id, db_stock, redis);
\* on success the view returns db_stock for both
VSeed ==
    /\ vpc = "seed"
    /\ LET result == set_nx(stock[Single], vdb)
       IN /\ stock' = [stock EXCEPT ![Single] = result.key]
          /\ seeded' = IF result.reply THEN Some(vdb) ELSE seeded
          /\ raced' = ~result.reply
          /\ IF result.reply
             THEN /\ view' = Some(stock_view(vdb, vdb))
                  /\ vpc' = "idle"
             ELSE /\ vpc' = "reread"
                  /\ UNCHANGED view
    /\ UNCHANGED <<vdb, unviewed>>

\* another caller initialised the counter first: get_stock again (db_stock
\* if there is still no value)
VReread ==
    /\ vpc = "reread"
    /\ view' = Some(stock_view(vdb,
                 IF get_stock(stock[Single]) # None
                 THEN Val(get_stock(stock[Single])) ELSE vdb))
    /\ vpc' = "idle"
    /\ UNCHANGED <<stock, seeded, vdb, raced, unviewed>>

\* the Product row exists, its counter does not yet; one purchase request
InitView ==
    /\ Boot
    /\ ~use_redlock
    /\ productRow
    /\ seeded = None
    /\ budget = 1

NextView ==
    \/ VStart
    \/ VGet
    \/ VSeed
    \/ VReread
    \/ \E quantity \in 1..InitStock : Seed(quantity)
    \/ NextSingle

SpecView == InitView /\ [][NextView]_vars

\* ------------------------------------- the lease of lock:stock:{id} in time

\* faulty variant: the lease is stored without an expiry
ttl_never(age) == FALSE

\* redis.set(lock_key, lock_id, nx=True, ex=settings.lock_timeout_seconds):
\* Redis removes the key once it has been stored for that many seconds
\* (LockTimeout stands for the setting)
ttl_due(age) == age >= LockTimeout

\* the age of the lease stored under the lock key after one more second
\* (tokens are never reused, so another token is a new lease)
Older ==
    IF aged.token = Val(lock[Single]) THEN aged.age + 1 ELSE 1

\* a second passes on the Redis endpoint while a lease is stored
Tick ==
    /\ lock[Single] # None
    /\ IF ttl_due(Older)
       THEN /\ lock' = [lock EXCEPT ![Single] = None]
            /\ expired' = expired + 1
       ELSE UNCHANGED <<lock, expired>>
    /\ aged' = [token |-> Val(lock[Single]), age |-> Older]
    /\ UNCHANGED <<redis_nodes, use_redlock, style, budget, up, productRow,
                   seeded, seed_reply, price, creation, viewing, lost,
                   stock, dbStock, ledger, started, pc, tok, args, attempt,
                   todo, acquired, success_count, ret, released, seen, cur,
                   outcome, stock0, alone, compensated, committed,
                   commit_failed>>

\* the process serving the request of w dies or freezes between
\* _acquire_lock and _release_lock: it takes no further step
Crash(w) ==
    /\ pc[w] \in {"eval", "release"}
    /\ pc' = [pc EXCEPT ![w] = "crashed"]
    /\ UNCHANGED <<config, stores, started, tok, args, attempt, todo,
                   acquired, success_count, ret, released, seen, cur,
                   outcome, stock0, alone, compensated, committed,
                   commit_failed, expired>>

InitLease ==
    /\ InitSingle
    /\ productRow
    /\ seeded = Some(InitStock)

NextLease ==
    \/ \E w \in Workers, q \in Quantities : Start(w, q)
    \/ \E w \in Workers : Acquire(w)
    \/ \E w \in Workers : Eval(w)
    \/ \E w \in Workers : Release(w)
    \/ \E w \in Workers : Diagnose(w)
    \/ \E w \in Workers : Ledger(w)
    \/ \E w \in Workers : SyncStockToDb(w)
    \/ \E w \in Workers : Commit(w)
    \/ \E w \in Workers : Failed(w)
    \/ \E w \in Workers : Crash(w)
    \/ Tick

\* the clock of the Redis endpoint never stops
SpecLease == InitLease /\ [][NextLease]_vars /\ WF_vars(Tick)

\* ================================================================ claims

\* worker w is not serving a request and its last request has ended
Returned(w) == pc[w] = "idle" /\ outcome[w] # "none"

\* the request of w ran without any other request during it or after it
Undisturbed(w) == Returned(w) /\ alone[w] /\ tok[w] = started /\ InFlight = {}

\* the quantity the endpoints were seeded with
SeededQty == IF seeded = None THEN 0 ELSE Val(seeded)

\* C1: single-endpoint mode: the quantities of the persisted Purchase rows
\* never add up to more than the stock the counter was seeded with.
C1_NoOversell == SumQty(ledger) <= SeededQty

\* C1 witness: Purchase rows are persisted, a lease has expired and a request
\* has failed at the commit step after its decrement.
C1_Witness ==
    /\ ~use_redlock
    /\ SumQty(ledger) > 0
    /\ expired > 0
    /\ \E w \in Workers : outcome[w] = "InternalFailure" /\ ret[w]

\* C2: multi-endpoint mode: the quantities of the quorum decrements that were
\* declared committed never add up to more than the seeded stock.
C2_QuorumNoOversell == use_redlock => committed <= SeededQty

\* C2 failing run: no counter was seeded, no lease expired, and a quorum
\* decrement has been declared committed.
C2_Witness ==
    /\ use_redlock
    /\ seeded = None
    /\ expired = 0
    /\ committed > 0

\* C3: the counter stock:{id} of every endpoint is never negative.
C3_NonNegative ==
    \A e \in Endpoints : stock[e] # None => Val(stock[e]) >= 0

\* C3 witness: after a lease expired two requests are past their decrement
\* and before their release at the same time, and the counter is at 0.
C3_Witness ==
    /\ expired > 0
    /\ stock[Single] = Some(0)
    /\ \E w, v \in Workers :
         w # v /\ pc[w] = "release" /\ pc[v] = "release" /\ ret[w]

\* C4: a purchase_product whose relational commit fails after its decrement
\* leaves, when it returns with no other request in between, the hot counter
\* at the value it had before the request.
C4_CompensationRestores ==
    \A w \in Workers :
        (Undisturbed(w) /\ style = "single"
            /\ outcome[w] = "InternalFailure")
        => stock[Single] = stock0[w][Single]

\* C4 failing run: the only request failed at the commit step and the hot
\* counter is still short of its quantity.
C4_Witness ==
    \E w \in Workers :
        /\ Undisturbed(w)
        /\ style = "single"
        /\ outcome[w] = "InternalFailure"
        /\ stock0[w][Single] # None
        /\ stock[Single] = Some(Val(stock0[w][Single]) - qty[w])

\* the Purchase rows of the requests that returned a purchase
Purchased == {Row(w) : w \in {x \in Workers : outcome[x] = "ok"}}

\* C5: when concurrent purchase_product requests, one per worker, have all
\* finished, each either committed or failed at the commit step after its
\* decrement, the hot counter equals the seeded stock minus the quantities of
\* those that committed: the failed ones gave their quantity back.
C5_CompensationPreservesProgress ==
    (/\ ~use_redlock
     /\ seeded # None
     /\ {tok[w] : w \in Workers} = 1..started
     /\ \A w \in Workers :
           Returned(w) /\ outcome[w] \in {"ok", "InternalFailure"})
    => stock[Single] = Some(Val(seeded) - SumQty(Purchased))

\* C5 failing run: of two concurrent requests one committed and one failed at
\* the commit step, and the hot counter is short of both quantities.
C5_Witness ==
    \E w, v \in Workers :
        /\ ~use_redlock
        /\ seeded # None
        /\ Returned(w) /\ outcome[w] = "ok"
        /\ Returned(v) /\ outcome[v] = "InternalFailure"
        /\ ~alone[w]
        /\ stock[Single] = Some(Val(seeded) - qty[w] - qty[v])

\* C6: whenever no request is in flight, a Purchase row exists for a request
\* if and only if its decrement succeeded and was not compensated.
C6_Materialization ==
    InFlight = {} =>
        \A w \in Workers :
            Returned(w) =>
                (Row(w) \in ledger <=> (ret[w] /\ ~compensated[w]))

\* C6 failing run: no request is in flight and a Redlock purchase whose
\* decrement succeeded and was not compensated has no Purchase row.
C6_Witness ==
    /\ InFlight = {}
    /\ style # "single"
    /\ \E w \in Workers :
          Returned(w) /\ ret[w] /\ ~compensated[w] /\ Row(w) \notin ledger

\* a step of the request of worker w
Moved(w) == pc'[w] # pc[w] \/ attempt'[w] # attempt[w]

C7_Step ==
    \A w \in Workers :
        (/\ Moved(w)
         /\ pc[w] # "idle"
         /\ style = "single"
         /\ stock0[w][Single] # None
         /\ qty[w] > Val(stock0[w][Single]))
        => /\ stock' = stock
           /\ dbStock' = dbStock
           /\ ledger' = ledger
           /\ pc'[w] = "idle" => outcome'[w] = "InsufficientStock"

\* C7: a purchase_product whose quantity exceeds the hot counter changes
\* neither the counter nor Product.stock nor the ledger in any of its steps,
\* and ends with InsufficientStock.
C7_InsufficientChangesNothing == [][C7_Step]_vars

\* C7 witness: with the counter at 0 a further purchase ended with
\* InsufficientStock and the counter is still 0.
C7_Witness ==
    \E w \in Workers :
        /\ Returned(w)
        /\ style = "single"
        /\ stock0[w][Single] = Some(0)
        /\ outcome[w] = "InsufficientStock"
        /\ stock[Single] = Some(0)

\* C8: after a quorum decrement that reported failure because too few
\* endpoints decremented (the request ran alone, so it acquired its locks),
\* every endpoint holds the stock key it held before the call, absent
\* included.
C8_FailedQuorumRestores ==
    \A w \in Workers :
        (/\ Undisturbed(w)
         /\ style # "single"
         /\ productRow
         /\ ~ret[w])
        => \A n \in Nodes : stock[n] = stock0[w][n]

\* C8 failing run: a quorum decrement of more than the stock failed and
\* every endpoint's counter is now greater by the quantity.
C8_Witness ==
    \E w \in Workers :
        /\ Undisturbed(w)
        /\ style # "single"
        /\ ~ret[w]
        /\ \A n \in Nodes :
              /\ stock0[w][n] # None
              /\ qty[w] > Val(stock0[w][n])
              /\ stock[n] = Some(Val(stock0[w][n]) + qty[w])

\* the step in which worker w runs _release_lock
ReleaseStep(w) == pc[w] = "release" /\ pc'[w] # "release"

C9_Step ==
    /\ \A w \in Workers :
          ReleaseStep(w) =>
             IF lock[Single] = Some(tok[w])
             THEN lock'[Single] = None /\ released'[w]
             ELSE lock'[Single] = lock[Single] /\ ~released'[w]
    /\ (lock[Single] # None /\ lock'[Single] # lock[Single])
          => \/ expired' # expired
             \/ \E w \in Workers :
                   ReleaseStep(w) /\ lock[Single] = Some(tok[w])

\* C9: _release_lock with a token other than the stored one (or on an absent
\* lock) deletes nothing and returns False; with the stored token it deletes
\* the lease and returns True; a lease goes away only by its TTL or by the
\* release of its owner.
C9_OwnerVerifiedRelease == [][C9_Step]_vars

\* C9 witness: a request released with its token while the lock held the
\* token of another request, which is still stored.
C9_Witness ==
    \E w, v \in Workers :
        /\ w # v
        /\ pc[w] = "ledger"
        /\ ~released[w]
        /\ pc[v] \in {"eval", "release"}
        /\ lock[Single] = Some(tok[v])

\* workers between a successful _acquire_lock and their _release_lock
Holders == {w \in Workers : pc[w] \in {"eval", "release"}}

C10_Mutex == expired = 0 => Cardinality(Holders) <= 1

C10_AcquireHeld ==
    \A w \in Workers :
        (pc[w] = "acquire" /\ Moved(w) /\ lock[Single] # None)
        => lock'[Single] = lock[Single] /\ pc'[w] # "eval"

\* C10: an acquire on a held lock fails and leaves the stored token as it
\* is, and while no lease has expired at most one request is between its
\* successful _acquire_lock and its _release_lock.
C10_LeaseUniqueness == []C10_Mutex /\ [][C10_AcquireHeld]_vars

\* C10 witness: no lease has expired, one request holds the lock and another
\* has failed an acquire attempt against it.
C10_Witness ==
    \E w, v \in Workers :
        /\ w # v
        /\ expired = 0
        /\ pc[v] \in {"eval", "release"}
        /\ lock[Single] = Some(tok[v])
        /\ pc[w] = "acquire"
        /\ attempt[w] > 0

\* worker w is between its successful _acquire_lock and its _release_lock
\* and the lock no longer stores its token: its lease has expired
Stale(w) == pc[w] \in {"eval", "release"} /\ lock[Single] # Some(tok[w])

C11_Step ==
    \A w \in Workers :
        (Stale(w) /\ Moved(w)) =>
            /\ (pc[w] = "eval" /\ stock[Single] # None) =>
                  IF Val(stock[Single]) >= qty[w]
                  THEN /\ stock'[Single] = Some(Val(stock[Single]) - qty[w])
                       /\ ret'[w]
                  ELSE /\ stock'[Single] = stock[Single]
                       /\ ~ret'[w]
            /\ pc[w] = "release" =>
                  /\ lock'[Single] = lock[Single]
                  /\ ~released'[w]

C11_Counter ==
    (~use_redlock /\ seeded # None) =>
        /\ stock[Single] = Some(Val(seeded) - committed)
        /\ Val(stock[Single]) >= 0

\* C11: a holder whose lease has expired still runs its decrement atomically
\* (by exactly its quantity when the stock suffices, not at all otherwise),
\* the counter is the seeded stock minus the quantities of all successful
\* decrements and never negative, and the late release of that holder
\* deletes nothing (the lock holds another token or is empty) and returns
\* False.
C11_StaleHolder == []C11_Counter /\ [][C11_Step]_vars

\* C11 witness: A's lease expired, B acquired the lock; both decremented, the
\* counter dropped by both quantities, and A's release left B's token.
C11_Witness ==
    \E a, b \in Workers :
        /\ a # b
        /\ expired > 0
        /\ pc[a] = "ledger" /\ ret[a] /\ ~released[a]
        /\ pc[b] = "release" /\ ret[b]
        /\ lock[Single] = Some(tok[b])
        /\ seeded # None
        /\ stock[Single] = Some(Val(seeded) - qty[a] - qty[b])

\* the step in which the purchase method of w raises from the branch
\* "if not stock_decreased"
DiagnoseStep(w) == pc[w] = "diagnose" /\ pc'[w] = "idle"

\* every lock attempt of w was used up, so its decrement never ran
Exhausted(w) == attempt[w] = lock_retry_attempts

C12_Step ==
    \A w \in Workers :
        /\ (pc[w] = "idle" /\ tok'[w] # tok[w]) =>
              (outcome'[w] = "ProductNotFound" <=> ~productRow)
        /\ DiagnoseStep(w) =>
              /\ outcome'[w] = "ProductNotFound" <=> stock[Single] = None
              /\ outcome'[w] = "InsufficientStock" <=>
                    (~Exhausted(w) /\ stock[Single] # None)
              /\ outcome'[w] = "LockAcquisitionFailure" <=>
                    (Exhausted(w) /\ stock[Single] # None)

\* C12: purchase_product raises ProductNotFound exactly when the Product row
\* or the hot counter is absent, InsufficientStock exactly when its decrement
\* ran and was refused for insufficient stock, and LockAcquisitionFailure
\* exactly when all its lock attempts failed (counter present), whatever the
\* other requests do.
C12_FailureKind == [][C12_Step]_vars

\* C12 failing run: all lock attempts of a request have failed, its decrement
\* never ran, and the counter it is about to read is below its quantity.
C12_Witness ==
    \E w \in Workers :
        /\ ~use_redlock
        /\ pc[w] = "diagnose"
        /\ Exhausted(w)
        /\ stock[Single] # None
        /\ Val(stock[Single]) < qty[w]

\* worker w is inside InventoryService.decrease_stock
InDecrease(w) == pc[w] \in {"acquire", "eval", "release"}

\* progress of a decrease_stock call: failed attempts, then the decrement,
\* then the release, then the return
Rank(w) ==
    IF pc[w] = "acquire" THEN attempt[w]
    ELSE IF pc[w] = "eval" THEN lock_retry_attempts
    ELSE IF pc[w] = "release" THEN lock_retry_attempts + 1
    ELSE lock_retry_attempts + 2

C13_Bounded ==
    \A w \in Workers :
        /\ attempt[w] <= lock_retry_attempts
        /\ pc[w] = "acquire" => attempt[w] < lock_retry_attempts
        /\ InDecrease(w) => ENABLED (Acquire(w) \/ Eval(w) \/ Release(w))

C13_Step ==
    \A w \in Workers :
        /\ (InDecrease(w) /\ Moved(w)) =>
              /\ Rank(w)' > Rank(w)
              /\ Rank(w)' <= lock_retry_attempts + 2
        /\ (pc[w] = "acquire" /\ Moved(w) /\ lock[Single] # None) =>
              /\ attempt'[w] = attempt[w] + 1
              /\ stock' = stock
              /\ committed' = committed
              /\ ~ret'[w]
              /\ pc'[w] = IF attempt'[w] = lock_retry_attempts
                           THEN "diagnose" ELSE "acquire"
              /\ sleep_after(attempt[w]) <=> pc'[w] = "acquire"

\* C13: a decrease_stock call makes at most lock_retry_attempts acquire
\* attempts and terminates (each of its steps can be taken and raises a
\* bounded rank); an attempt that finds the lock held changes no counter and
\* is followed by a sleep exactly when another attempt follows, and after
\* the last such attempt the call returns False without having run the
\* decrement.
C13_BoundedRetry == []C13_Bounded /\ [][C13_Step]_vars

\* C13 witness: a call has used all its attempts against a held lock and is
\* back in purchase_product with False, the counter as seeded.
C13_Witness ==
    \E w \in Workers :
        /\ ~use_redlock
        /\ pc[w] = "diagnose"
        /\ attempt[w] = lock_retry_attempts
        /\ ~ret[w]
        /\ seeded # None
        /\ stock[Single] = seeded

\* C14: in runs where no relational commit has raised, whenever no purchase
\* is in flight the hot counter equals the seeded stock minus the quantities
\* of the persisted Purchase rows.
C14_LedgerCounterAgreement ==
    (/\ ~use_redlock
     /\ seeded # None
     /\ ~commit_failed
     /\ InFlight = {})
    => stock[Single] = Some(Val(seeded) - SumQty(ledger))

\* C14 witness: no commit has raised, no purchase is in flight, two requests
\* have run, one persisted a row and one was refused.
C14_Witness ==
    /\ ~use_redlock
    /\ seeded # None
    /\ ~commit_failed
    /\ InFlight = {}
    /\ started = 2
    /\ Cardinality(ledger) = 1
    /\ \E w \in Workers : outcome[w] \in {"InsufficientStock",
                                            "LockAcquisitionFailure"}

\* all requests of the run have been sent and have finished, and no
\* relational commit raised
BurstOver == started = budget /\ InFlight = {} /\ ~commit_failed

\* C15: after a burst of more purchase_product requests of quantity 1 than
\* the stock, exactly as many Purchase rows as the seeded stock are
\* committed, every request has ended with a purchase, InsufficientStock or
\* LockAcquisitionFailure, and the hot counter and Product.stock are 0.
C15_Burst ==
    BurstOver =>
        /\ Cardinality(ledger) = InitStock
        /\ \A w \in Workers :
              Returned(w) => outcome[w] \in {"ok", "InsufficientStock",
                                             "LockAcquisitionFailure"}
        /\ stock[Single] = Some(0)
        /\ dbStock = 0

\* C15 failing run: the burst is over, no lease expired, and stock is left
\* on the hot counter because requests were turned away at the lock.
C15_Witness ==
    /\ BurstOver
    /\ budget > InitStock
    /\ expired = 0
    /\ stock[Single] # Some(0)
    /\ Cardinality(ledger) < InitStock

\* the burst is over, the counter is sold out, and the mirror is not 0
C15_StaleMirror ==
    /\ BurstOver
    /\ budget > InitStock
    /\ stock[Single] = Some(0)
    /\ Cardinality(ledger) = InitStock
    /\ dbStock # 0

\* C16: after a purchase_product of quantity q that ran with no other request
\* in flight has succeeded, Product.stock and the hot counter both equal the
\* counter value from before the request minus q, and the stock view reports
\* synced; this holds after each purchase of a sequence.
C16_SequentialPurchase ==
    \A w \in Workers :
        (Undisturbed(w) /\ style = "single" /\ outcome[w] = "ok") =>
            /\ stock0[w][Single] # None
            /\ stock[Single] = Some(Val(stock0[w][Single]) - qty[w])
            /\ dbStock = Val(stock0[w][Single]) - qty[w]
            /\ get_product_with_stock(dbStock, stock[Single]).synced

\* C16 case: the second of two sequential purchases has succeeded and has
\* brought the counter to 0.
C16_Witness ==
    /\ style = "single"
    /\ started = 2
    /\ stock[Single] = Some(0)
    /\ Cardinality(ledger) = 2
    /\ dbStock = 0
    /\ \E w \in Workers :
          /\ Undisturbed(w)
          /\ outcome[w] = "ok"
          /\ stock0[w][Single] = Some(qty[w])

\* C17: whenever purchase_product has raised, no Purchase row of that request
\* is persisted, and Product.stock is as it was before the request (stated
\* for the first request, before which Product.stock is the created stock):
\* the insert and the mirror update are durable together or not at all.
C17_AtomicFailure ==
    \A w \in Workers :
        (Returned(w) /\ style = "single" /\ outcome[w] # "ok") =>
            /\ Row(w) \notin ledger
            /\ (started = 1 => dbStock = InitStock)

\* C17 failing run: sync_stock_to_db has committed the row and the mirror,
\* the db.commit() or db.refresh() after it raised, and purchase_product
\* raised with the row persisted and Product.stock changed.
C17_Witness ==
    /\ style = "single"
    /\ started = 1
    /\ \E w \in Workers :
          /\ Returned(w)
          /\ outcome[w] = "InternalFailure"
          /\ Row(w) \in ledger
          /\ dbStock = InitStock - qty[w]

\* some value was answered by at least a quorum of the endpoints
Agreed(answers) == {v \in 0..InitStock : Count(answers, v) >= quorum}

\* C18: if at least floor(N/2)+1 endpoints answer the same value V, the
\* quorum read returns V; if no value is answered by that many endpoints, it
\* returns None.
C18_ReadAgreement ==
    \A w \in Workers :
        outcome[w] = "read" =>
            /\ \A v \in Agreed(seen[w]) : cur[w] = Some(v)
            /\ Agreed(seen[w]) = {} => cur[w] = None

\* the half of C18 the code satisfies
C18_AgreedValueReturned ==
    \A w \in Workers :
        outcome[w] = "read" => \A v \in Agreed(seen[w]) : cur[w] = Some(v)

\* C18 failing run: every endpoint answered, no two of them the same value,
\* and the quorum read returned one of the values.
C18_Witness ==
    \E w \in Workers :
        /\ outcome[w] = "read"
        /\ Responders(seen[w]) = Nodes
        /\ Agreed(seen[w]) = {}
        /\ cur[w] # None

Reachable == {n \in Nodes : up[n]}

ReadNow == quorum_get_stock([n \in Nodes |-> IF up[n] THEN stock[n] ELSE None])

\* C20: endpoints seeded with the same stock, one quorum purchase of an
\* available quantity q with nothing else in flight and no database failure.
\* While a majority of the endpoints is reachable (5 endpoints, 2 down) the
\* purchase succeeds and the quorum read then returns the seeded stock
\* minus q; with no majority reachable (3 of 5 down) the purchase does not
\* succeed, and it surfaces LockAcquisitionFailure or the quorum read
\* returns None.
C20_PartialFailure ==
    \A w \in Workers :
        (/\ Undisturbed(w)
         /\ style # "single"
         /\ seeded # None
         /\ \A n \in Nodes : stock0[w][n] = seeded
         /\ qty[w] <= SeededQty
         /\ ~commit_failed) =>
            IF 2 * Cardinality(Reachable) > Cardinality(Nodes)
            THEN /\ outcome[w] = "ok"
                 /\ ReadNow = {Some(SeededQty - qty[w])}
            ELSE /\ outcome[w] # "ok"
                 /\ \/ outcome[w] = "LockAcquisitionFailure"
                    \/ ReadNow = {None}

\* C20 case: 2 of 5 endpoints are down and the purchase has succeeded.
C20_Witness ==
    /\ redis_nodes = 5
    /\ Cardinality(Reachable) = 3
    /\ \E w \in Workers : Undisturbed(w) /\ outcome[w] = "ok"

\* the other C20 case: 3 of 5 endpoints are down, the purchase has raised
\* and the quorum read returns None
C20_NoQuorum ==
    /\ redis_nodes = 5
    /\ Cardinality(Reachable) = 2
    /\ ReadNow = {None}
    /\ \E w \in Workers : Undisturbed(w) /\ outcome[w] = "ProductNotFound"

\* every worker has served a request, the requests overlapped, all have
\* returned, and no lease expired
Overlapped ==
    /\ InFlight = {}
    /\ expired = 0
    /\ \A w \in Workers : Returned(w) /\ ~alone[w]

\* the quantities the overlapping requests asked for
RECURSIVE Demand(_)
Demand(W) ==
    IF W = {} THEN 0
    ELSE LET w == CHOOSE x \in W : TRUE
         IN qty[w] + Demand(W \ {w})

\* C21: when concurrent callers of the quorum decrease_stock_sync ask in
\* total for no more than the seeded stock, every call returns True and the
\* quorum read afterwards returns the seeded stock minus the total demand.
C21_ConcurrentQuorumDecrease ==
    (/\ Overlapped
     /\ style = "sync"
     /\ seeded # None
     /\ productRow
     /\ Demand(Workers) <= SeededQty) =>
        /\ \A w \in Workers : ret[w]
        /\ ReadNow = {Some(SeededQty - Demand(Workers))}

\* C21 failing run: two overlapping calls asked for no more than the stock,
\* no lease expired, and one of them returned False because the other held
\* locks on endpoints it tried.
C21_Witness ==
    /\ Overlapped
    /\ style = "sync"
    /\ seeded # None
    /\ productRow
    /\ Demand(Workers) <= SeededQty
    /\ \E w, v \in Workers : ret[w] /\ ~ret[v]
    /\ \A n \in Nodes :
          /\ stock[n] # None
          /\ Val(stock[n]) > SeededQty - Demand(Workers)

\* C22: when n overlapping callers of the single-endpoint decrease_stock,
\* with lock_retry_attempts >= n, ask in total for no more than the seeded
\* stock, every call returns True and the counter ends at the seeded stock
\* minus the total demand.
C22_ConcurrentDecrease ==
    (/\ Overlapped
     /\ style = "single"
     /\ seeded # None
     /\ productRow
     /\ lock_retry_attempts >= Cardinality(Workers)
     /\ Demand(Workers) <= SeededQty) =>
        /\ \A w \in Workers : ret[w]
        /\ stock[Single] = Some(SeededQty - Demand(Workers))

\* C22 failing run: no lease expired, one caller stayed in its critical
\* section while the other used up its lock_retry_attempts attempts and
\* returned False, and stock is left over.
C22_Witness ==
    /\ Overlapped
    /\ style = "single"
    /\ seeded # None
    /\ productRow
    /\ lock_retry_attempts >= Cardinality(Workers)
    /\ Demand(Workers) <= SeededQty
    /\ \E w, v \in Workers :
          /\ ret[w]
          /\ ~ret[v]
          /\ outcome[v] = "LockAcquisitionFailure"
          /\ stock[Single] = Some(SeededQty - qty[w])

\* a direct call of initialize_stock on an absent counter sets it and
\* returns True; on a present counter, whatever it holds, it returns False
\* and leaves it as it is
C23_Step ==
    \A quantity \in 1..InitStock :
        Seed(quantity) =>
            IF stock[Single] = None
            THEN /\ seed_reply' = Some(TRUE)
                 /\ stock'[Single] = Some(quantity)
                 /\ seeded = None
            ELSE /\ seed_reply' = Some(FALSE)
                 /\ stock' = stock

\* the counter is the value of the first seed minus what was decremented
\* since
C23_Counter ==
    seeded # None => stock[Single] = Some(Val(seeded) - committed)

\* C23: initialize_stock sets the counter only if it is absent; a later seed
\* call, with the same or another quantity, returns False and leaves the
\* counter at the value of the first seed (less what was decremented in
\* between).
C23_IdempotentSeed == []C23_Counter /\ [][C23_Step]_vars

\* C23 case: the counter was seeded, a purchase decremented it to 0, and a
\* second seed call returned False.
C23_Witness ==
    /\ seeded = Some(InitStock)
    /\ committed = InitStock
    /\ seed_reply = Some(FALSE)
    /\ stock[Single] = Some(0)

\* a step keeps every Purchase row as it is, and a row it adds is the row
\* of a request in flight: its quantity, and the total price worked out from
\* the Product row that request loaded
C24_Step ==
    /\ ledger \subseteq ledger'
    /\ \A r \in ledger' \ ledger :
          \E w \in Workers :
             r = [id |-> tok[w], quantity |-> qty[w],
                  total_price |-> total_price[w]]
    /\ \A w \in Workers :
          (pc[w] = "idle" /\ pc'[w] # "idle") =>
              total_price'[w] = price * qty'[w]

\* a request has one Purchase row at most
C24_OneRow == \A r1, r2 \in ledger : r1.id = r2.id => r1 = r2

\* C24: the ledger is append-only: no step changes or removes a Purchase
\* row, whose quantity and total_price (Product.price x quantity when it was
\* bought) stay what they were whatever happens to Product.price, to the
\* stock and to later purchases.
C24_AppendOnly == []C24_OneRow /\ [][C24_Step]_vars

\* C24 case: Product.price was changed after a purchase and another
\* purchase followed; the first row still carries the old price.
C24_Witness ==
    \E r1, r2 \in ledger :
        /\ r1.id < r2.id
        /\ r1.total_price # price * r1.quantity
        /\ r2.total_price = price * r2.quantity

\* every create_product call of the run has ended
AllCreated == \A c \in Workers : cpc[c] = "idle" /\ created[c] # "none"

\* C25: there is never more than one Product row of a name; and when the
\* create_product calls for the name have all ended (none of them met a
\* counter left under its new id), exactly one has succeeded, also when the
\* name lease was removed by its TTL during a critical section.
C25_UniqueName ==
    /\ Cardinality(products) <= 1
    /\ (AllCreated /\ \A c \in Workers : why[c] # "seed_failed") =>
           Cardinality({c \in Workers : created[c] = "ok"}) = 1

\* what holds of C25 while no name lease is removed by its TTL
C25_WithoutLapse == lapsed = 0 => C25_UniqueName

\* C25 failing run: the name lease of the first creator lapsed after its
\* name check, the second creator passed the check too, and both inserted
\* a row and seeded a counter and returned their product.
C25_Witness ==
    /\ lapsed = 1
    /\ AllCreated
    /\ Cardinality(products) = 2
    /\ \A c \in Workers : created[c] = "ok"
    /\ \A r \in products : hot[r.id] = Some(r.stock)

\* a step in which create_product of c finds the name lock taken
LockHeldStep(c) == why[c] # "lock_held" /\ why'[c] = "lock_held"

\* what C26 says apart from the kind of the error: no row, no counter, and
\* the lease of the holder stays
C26_NoEffect ==
    \A c \in Workers :
        LockHeldStep(c) =>
            /\ name_lock # None /\ name_lock # Some(c)
            /\ created'[c] # "ok"
            /\ products' = products
            /\ hot' = hot
            /\ name_lock' = name_lock

C26_Step ==
    /\ C26_NoEffect
    /\ \A c \in Workers :
          LockHeldStep(c) =>
              /\ created'[c] # exception_class("exists")
              /\ created'[c] # exception_class("seed_failed")

\* C26: if the name lock is held by another creator, create_product fails
\* with an error of a kind of its own (not that of ProductAlreadyExists, not
\* that of an internal failure such as the failed seeding), inserts no row,
\* seeds no counter and leaves the lease of the holder in place.
C26_LockHeld == [][C26_Step]_vars

\* the part of C26 that holds
C26_LockHeldNoEffect == [][C26_NoEffect]_vars

\* C26 failing run: one creator found the lock taken, the holder failed to
\* seed its counter, and both got an exception of the same class.
C26_Witness ==
    \E c, d \in Workers :
        /\ AllCreated
        /\ why[c] = "lock_held"
        /\ why[d] = "seed_failed"
        /\ created[c] = created[d]

\* C27: a create_product that finds a Product row of the name at its name
\* check fails with ProductAlreadyExists, and no step of it changes a row
\* or a counter.
C27_Step ==
    \A c \in Workers :
        /\ (cpc[c] = "check" /\ cpc'[c] # "check" /\ products # {}) =>
               why'[c] = "exists"
        /\ (why'[c] = "exists" /\ (cpc'[c] # cpc[c] \/ why[c] # "exists")) =>
               /\ products' = products
               /\ hot' = hot
               /\ cpc'[c] = "idle" =>
                      created'[c] = "ProductAlreadyExistsException"

C27_AlreadyExists == [][C27_Step]_vars

\* C27 case: the second create_product of the name has failed with
\* ProductAlreadyExists; the row and the counter of the first are there.
C27_Witness ==
    /\ lapsed = 0
    /\ AllCreated
    /\ \E c \in Workers : created[c] = "ProductAlreadyExistsException"
    /\ \E c \in Workers :
          /\ created[c] = "ok"
          /\ products = {[id |-> Val(product[c]), stock |-> cstock[c]]}
          /\ hot[Val(product[c])] = Some(cstock[c])

\* a seeding that finds a counter under the new id leaves it as it is; the
\* row just inserted is deleted next, and create_product fails
C28_Step ==
    \A c \in Workers :
        /\ (cpc[c] = "seed" /\ cpc'[c] # "seed"
              /\ hot[Val(product[c])] # None) =>
               /\ hot' = hot
               /\ cpc'[c] = "undo"
        /\ (cpc[c] = "undo" /\ cpc'[c] # "undo") =>
               /\ \A r \in products' : r.id # Val(product[c])
               /\ \A r \in products :
                     r.id # Val(product[c]) => r \in products'
               /\ hot' = hot
        /\ (why[c] = "seed_failed" /\ cpc'[c] = "idle") => created'[c] # "ok"

\* while no create_product is in flight, every Product row has a counter
\* seeded with its initial stock
C28_Seeded ==
    (\A c \in Workers : cpc[c] = "idle") =>
        \A r \in products : hot[r.id] = Some(r.stock)

\* C28: if the seeding fails because a counter is present under the new id,
\* create_product deletes the row it inserted and fails, leaving that
\* counter unchanged; so with no create_product in flight every Product row
\* has a counter seeded with its initial stock.
C28_SeedFailure == []C28_Seeded /\ [][C28_Step]_vars

\* C28 case: a creator met a counter under its new id and failed; its row is
\* gone, the counter is as it was, and the other creator's row has its own.
C28_Witness ==
    \E c, d \in Workers :
        /\ AllCreated
        /\ why[c] = "seed_failed"
        /\ created[d] = "ok"
        /\ hot[Val(product[c])] = Some(0)
        /\ products = {[id |-> Val(product[d]), stock |-> cstock[d]]}

\* the steps of get_product_with_stock: what it returns reports synced
\* exactly when the two values it returns are equal, db_stock being the
\* Product.stock it read; a counter that is present is returned as it is and
\* left alone; an absent counter is set to db_stock by SET NX; and when the
\* SET NX finds a counter, that counter stays and is the value returned
C29_Step ==
    /\ view' # view =>
          /\ Val(view').synced =
                 (Val(view').db_stock = Val(view').redis_stock)
          /\ Val(view').db_stock = vdb
          /\ stock[Single] # None =>
                 /\ Val(view').redis_stock = Val(stock[Single])
                 /\ stock' = stock
    /\ (vpc = "idle" /\ vpc' = "get") => vdb' = dbStock
    /\ (vpc = "seed" /\ vpc' # "seed") =>
          IF stock[Single] = None
          THEN /\ stock'[Single] = Some(vdb)
               /\ Val(view').redis_stock = vdb
          ELSE /\ stock' = stock
               /\ vpc' = "reread"

\* C29: get_product_with_stock returns synced = (Product.stock == hot
\* counter); an absent hot counter is seeded from Product.stock with
\* set-if-absent, and when another caller seeds or writes the counter first
\* the existing value is returned and not overwritten.
C29_StockView == [][C29_Step]_vars

\* C29 case: the view found no counter, a direct seed with another quantity
\* came first, the SET NX of the view failed, and the view returned the
\* value of the counter, not synced.
C29_Witness ==
    /\ raced
    /\ view # None
    /\ committed = 0
    /\ ~Val(view).synced
    /\ stock[Single] = Some(Val(view).redis_stock)
    /\ seeded = stock[Single]

\* the except clause of purchase_product returns to its caller
C30_Step ==
    \A w \in Workers :
        (pc[w] = "failed" /\ pc'[w] = "idle") =>
            /\ outcome'[w] = "InternalFailure"
            /\ stock' = stock => ~compensated'[w]

\* no caller ever receives the error of the compensating increment
C30_NotMasked ==
    \A w \in Workers : outcome[w] # Val(increase_stock_error)

\* C30: when the relational write fails inside purchase_product the caller
\* receives the original failure; the error the compensating increment
\* raises is swallowed and never replaces it.
C30_OriginalFailure == []C30_NotMasked /\ [][C30_Step]_vars

\* C30 case: the relational write of a purchase failed after its decrement,
\* the compensating increment raised (the counter was not restored) and the
\* caller received the failure of the write.
C30_Witness ==
    \E w \in Workers :
        /\ style = "single"
        /\ commit_failed
        /\ Returned(w)
        /\ outcome[w] = "InternalFailure"
        /\ ~compensated[w]
        /\ stock[Single] = Some(InitStock - qty[w])

\* a lease is removed by its TTL only when it has been stored for
\* lock_timeout_seconds, and an _acquire_lock that finds no lease stores its
\* token
C31_Step ==
    /\ (lock[Single] # None /\ aged' # aged /\ lock'[Single] = None) =>
           aged'.age = LockTimeout
    /\ \A w \in Workers :
          (pc[w] = "acquire" /\ lock[Single] = None
             /\ <<pc'[w], attempt'[w]>> # <<pc[w], attempt[w]>>) =>
                /\ lock'[Single] = Some(tok[w])
                /\ pc'[w] = "eval"

\* no lease is stored longer than lock_timeout_seconds
C31_Bounded ==
    (lock[Single] # None /\ aged.token = Val(lock[Single])) =>
        aged.age < LockTimeout

\* C31: TTL liveness: the lease of a holder that crashed or froze without
\* releasing disappears once lock_timeout_seconds have elapsed, after which
\* the acquire of a contender succeeds; no lease stays held forever.
C31_TTLLiveness ==
    /\ []C31_Bounded
    /\ [][C31_Step]_vars
    /\ \A t \in 1..MaxReq :
          (lock[Single] = Some(t)) ~> (lock[Single] # Some(t))

\* C31 case: a holder crashed with its lease stored, the TTL removed the
\* lease, and the contender has acquired the lock.
C31_Witness ==
    \E w, x \in Workers :
        /\ pc[w] = "crashed"
        /\ aged = [token |-> tok[w], age |-> LockTimeout]
        /\ expired = 1
        /\ pc[x] = "eval"
        /\ lock[Single] = Some(tok[x])

\* the clients between step 2 (quorum of locks) and the release of a quorum
\* decrement: steps 3 and 4, the decrement and its rollback
Decrementing == {w \in Workers : pc[w] \in {"qdecrease", "qrollback"}}

\* C32: quorum mutual exclusion: a client runs the quorum decrement only after
\* at least floor(N/2)+1 endpoints accepted its token, so while no lease
\* expires, with up to floor(N/2) endpoints unreachable, no two clients are
\* in the decrement phase at the same time.
C32_QuorumExclusion ==
    /\ \A w \in Decrementing :
          /\ Cardinality(acquired[w]) >= (redis_nodes \div 2) + 1
          /\ expired = 0 => \A n \in acquired[w] : lock[n] = Some(tok[w])
    /\ expired = 0 => Cardinality(Decrementing) <= 1

\* C32 case: with an endpoint down, one client decrements under a quorum of
\* leases while the other has been refused by an endpoint that answers.
C32_Witness ==
    \E w, x \in Workers :
        /\ Down # {}
        /\ expired = 0
        /\ pc[w] = "qdecrease"
        /\ success_count[w] > 0
        /\ pc[x] = "qacquire"
        /\ acquired[x] = {}
        /\ \E n \in Nodes \ todo[x] : up[n]

\* the leases of client w that are still stored: a lease that is gone was
\* removed by its TTL, so at least lock_timeout_seconds have passed since
\* the client stored it
Valid(w) == {n \in acquired[w] : lock[n] = Some(tok[w])}

\* step 2 of a quorum decrement declares the lock acquired
DeclaresAcquired(w) == pc[w] = "qacquire" /\ pc'[w] = "qdecrease"

\* step 4 of a quorum decrement declares the decrement committed
DeclaresCommitted(w) == pc[w] = "qdecrease" /\ ret'[w] /\ ~ret[w]

\* the count half of the claim: acquired only with a quorum of acceptances,
\* failure reported otherwise
C33_Count ==
    \A w \in Workers :
        /\ DeclaresAcquired(w) =>
              Cardinality(acquired'[w]) >= (redis_nodes \div 2) + 1
        /\ (pc[w] = "qacquire" /\ pc'[w] \in {"qrelease", "qread"}) =>
              /\ ~ret'[w]
              /\ Cardinality(acquired[w]) < (redis_nodes \div 2) + 1

C33_CountOnly == [][C33_Count]_vars

\* the time half of the claim: when the lock is declared acquired, and when
\* the decrement is declared committed, none of the leases has run out
C33_Time ==
    \A w \in Workers :
        /\ DeclaresAcquired(w) =>
              \A n \in acquired'[w] : lock'[n] = Some(tok[w])
        /\ DeclaresCommitted(w) => Valid(w) = acquired[w]

\* C33: quorum lock validity: the quorum lock is declared acquired only if at
\* least floor(N/2)+1 endpoints accepted the token and the time elapsed
\* during acquisition is less than the TTL (otherwise the locks obtained are
\* released and failure is reported), and a quorum decrement is declared
\* committed only if acquisition plus critical section stayed below the TTL.
C33_QuorumValidity == [][C33_Count /\ C33_Time]_vars

\* C33 case: the first lease of a client ran out while the client was still
\* acquiring; the last endpoint is free, so the next step declares the lock
\* acquired.
C33_Witness ==
    \E w \in Workers :
        /\ style = "sync"
        /\ pc[w] = "qacquire"
        /\ todo[w] = {redis_nodes}
        /\ acquired[w] = Nodes \ {redis_nodes}
        /\ lock[1] = None
        /\ lock[redis_nodes] = None
        /\ expired = 1

\* the decrement method called for the request of w returns (or raises) to
\* the purchase method: decrease_stock after its finally clause or after its
\* last attempt, a quorum decrement after _release_locks or, with no lock
\* acquired, straight from step 2
DecrementReturns(w) ==
    \/ pc[w] = "release" /\ pc'[w] # "release"
    \/ pc[w] = "acquire" /\ pc'[w] = "diagnose"
    \/ pc[w] \in {"qacquire", "qrelease"} /\ pc'[w] = "qread"

\* after the step no endpoint stores the token of w
NoLeaseLeft(w) == \A e \in Endpoints : lock'[e] # Some(tok[w])

C34_Step == \A w \in Workers : DecrementReturns(w) => NoLeaseLeft(w)

\* C34: lock release on every exit: when decrease_stock or a quorum decrement
\* returns or raises (success, insufficient stock, missing counter, failed
\* quorum, an error or a lost reply on some endpoint), no endpoint still
\* stores the token of the caller under lock:stock:{id}.
C34_ReleasedOnExit == [][C34_Step]_vars

\* the same while every reply arrives
C34_WithoutLoss == [][lost' = 0 => C34_Step]_vars

\* C34 case: the reply of an endpoint to the SET NX EX of a client got lost,
\* the quorum decrement of the client has returned True and the purchase has
\* ended, and the endpoint still stores the token of the client.
C34_Witness ==
    \E w \in Workers, n \in Nodes :
        /\ lost = 1
        /\ expired = 0
        /\ Returned(w)
        /\ outcome[w] = "ok"
        /\ lock[n] = Some(tok[w])

\* create_product of c has returned or raised after it had acquired the name
\* lock
Left(c) == cpc[c] = "idle" /\ created[c] # "none" /\ why[c] # "lock_held"

\* the name lock is taken away from creator d only by the release of d or by
\* the TTL, and create_product leaves only through its release
C35_Step ==
    /\ \A d \in Workers :
          (name_lock = Some(d) /\ name_lock' # name_lock) =>
              \/ cpc[d] = "release" /\ cpc'[d] = "idle" /\ name_lock' = None
              \/ lapsed' = lapsed + 1 /\ name_lock' = None
    /\ \A c \in Workers :
          (cpc[c] # "idle" /\ cpc'[c] = "idle") => cpc[c] = "release"

\* after create_product has left, the name lock does not hold its token
C35_Released == \A c \in Workers : Left(c) => name_lock # Some(c)

\* C35: once create_product has acquired the name lock, on every exit path
\* (success, ProductAlreadyExists, seed failure, relational error) it
\* performs the owner-verified release: after it returns the name lock does
\* not hold its token, and it never deletes the token of another creator.
C35_NameLockRelease == []C35_Released /\ [][C35_Step]_vars

\* C35 case: the relational write of a creator failed after its lease had
\* lapsed and another creator had acquired the name lock; the first has
\* left through its release and the lease of the other is still stored.
C35_Witness ==
    \E c, d \in Workers :
        /\ c # d
        /\ Left(c)
        /\ why[c] = "db_error"
        /\ lapsed = 1
        /\ name_lock = Some(d)
        /\ cpc[d] \notin {"idle", "release"}

\* the cancellation of the request of w reaches the caller
Propagates(w) ==
    outcome[w] # "CancelledError" /\ outcome'[w] = "CancelledError"

\* C36: if a purchase request is cancelled after its decrement of the hot
\* counter succeeded and before the ledger commit, the compensating
\* increment of exactly quantity runs before the cancellation propagates to
\* the caller.
C36_CancelCompensates ==
    [][\A w \in Workers :
          (Propagates(w) /\ ret[w]) => compensated'[w]]_vars

\* C36 case: a request that ran alone was cancelled after its quorum
\* decrement had returned True: the caller has the cancellation, every
\* endpoint is lower by the quantity and there is no Purchase row.
C36_Witness ==
    \E w \in Workers :
        /\ Returned(w)
        /\ outcome[w] = "CancelledError"
        /\ ret[w]
        /\ alone[w]
        /\ started = 1
        /\ ledger = {}
        /\ \A n \in Nodes : stock[n] = Some(InitStock - qty[w])

\* the quorum decrement called for the request of w has returned
Decremented(w) ==
    /\ tok[w] # 0
    /\ pc[w] \notin {"qacquire", "qdecrease", "qrollback", "qrelease"}

\* the lock keys before the request: only the leases of the stranger
LocksBefore ==
    [n \in Nodes |-> IF lock[n] = Some(Stranger) THEN lock[n] ELSE None]

\* C37: the blocking and the cooperative quorum decrement have identical
\* external semantics: from the same endpoint states and for the same
\* request, with no concurrent client, decrease_stock_async returns what
\* decrease_stock_sync returns and leaves the lock and stock keys of every
\* endpoint in the same state.
C37_SameSemantics ==
    \A w \in Workers :
        Decremented(w) =>
            [ret |-> ret[w],
             stock |-> [n \in Nodes |-> stock[n]],
             lock |-> [n \in Nodes |-> lock[n]]]
              = decrease_stock_sync([n \in Nodes |-> stock0[w][n]],
                                    LocksBefore, tok[w], qty[w])

\* C37 case: an async decrement, in an order other than the list order, met
\* its lock quorum next to the lease of a stranger, missed the decrement
\* quorum and rolled back, changing the stock of an endpoint.
C37_Witness ==
    \E w \in Workers :
        /\ style = "async"
        /\ Decremented(w)
        /\ ~ret[w]
        /\ \E n \in Nodes : lock[n] = Some(Stranger)
        /\ \E n \in Nodes : stock[n] # stock0[w][n]

\* the path of one decrease_stock call: the script runs only right after an
\* acquisition, the call never goes back to acquiring once it has acquired,
\* and after the script only the release and the return follow
C38_Path ==
    \A w \in Workers :
        /\ (pc'[w] = "eval" /\ pc[w] # "eval") => pc[w] = "acquire"
        /\ (pc'[w] = "acquire" /\ pc[w] # "acquire") => pc[w] = "idle"
        /\ (pc[w] = "eval" /\ pc'[w] # "eval") => pc'[w] = "release"
        /\ (pc[w] = "release" /\ pc'[w] # "release") =>
              pc'[w] = IF ret[w] THEN "ledger" ELSE "diagnose"

\* the one run of the script: it lowers the counter by exactly quantity and
\* the call will return True, or it leaves the counter and the call will
\* return False
C38_Script ==
    \A w \in Workers :
        (pc[w] = "eval" /\ pc'[w] = "release") =>
            IF stock[Single] # None /\ Val(stock[Single]) >= qty[w]
            THEN /\ stock'[Single] = Some(Val(stock[Single]) - qty[w])
                 /\ ret'[w]
            ELSE /\ stock' = stock
                 /\ ~ret'[w]

\* C38: a single decrease_stock call executes the decrement script at most
\* once: after its first successful lock acquisition it returns the outcome
\* of the script without further attempts (insufficient stock or a missing
\* counter is not retried), so one call lowers the counter by either 0 or
\* exactly quantity.
C38_AtMostOnce == [][C38_Path /\ C38_Script]_vars

\* C38 case: a call that was refused the lock once has acquired it, the
\* script found too little stock, and the call is on its way out although
\* attempts remain.
C38_Witness ==
    \E w \in Workers :
        /\ pc[w] = "release"
        /\ ~ret[w]
        /\ attempt[w] = 1
        /\ again(attempt[w] + 1)
        /\ stock[Single] # None
        /\ Val(stock[Single]) < qty[w]

\* no client is inside a quorum decrement (between its first SET NX and its
\* last release)
NoDecrementInFlight ==
    \A w \in Workers :
        pc[w] \notin {"qacquire", "qdecrease", "qrollback", "qrelease"}

\* C39: endpoint agreement: all N endpoints are reachable and were seeded
\* with the same stock; while no lease expires, whenever no quorum decrement
\* is in flight all endpoints hold the same stock value, after any sequence
\* of successful and failed quorum decrements.
C39_EndpointAgreement ==
    (expired = 0 /\ NoDecrementInFlight) =>
        \A n, m \in Nodes : stock[n] = stock[m]

\* C39 case: one quorum decrement has succeeded and one has failed for
\* insufficient stock, both purchases have ended, no lease has expired, and
\* the endpoints hold one value.
C39_Witness ==
    /\ expired = 0
    /\ started = 2
    /\ \A w \in Workers : pc[w] = "idle"
    /\ committed > 0
    /\ \E w \in Workers : outcome[w] = "InsufficientStock"
    /\ \E w \in Workers : outcome[w] = "ok"
    /\ \A n \in Nodes : stock[n] = stock[1] /\ stock[n] # None


====
